---- MODULE Spec2Model ----
(***************************************************************************)
(* Verification model of the nabla front end (AlecGhost/nabla):           *)
(*   - the value analysis and the stack based evaluator                   *)
(*     (nabla_frontend/src/semantics/values.rs, values/value_analysis.rs, *)
(*     eval/value.rs),                                                    *)
(*   - the use, namespace and type analyses (semantics/uses.rs,           *)
(*     semantics/namespace.rs, semantics/types.rs, types/analysis.rs,     *)
(*     types/assertions.rs) and their composition (semantics.rs),         *)
(*   - the lexer (nabla_frontend/src/lexer.rs),                           *)
(*   - the parser (nabla_frontend/src/parser.rs, parser/utility.rs).      *)
(*                                                                         *)
(* Rule indices are 1-based here (Rust index i is i + 1 in the model), so *)
(* rule_index(rules) = rules.len() - 1 becomes Len(rules).                *)
(***************************************************************************)
EXTENDS Integers, Sequences, FiniteSets, TLC

VARIABLES
    globals,      \* values.rs: module_ast.ast.globals consumed so far
    rules,        \* values.rs:43   Vec<Rule>
    rule_table,   \* values.rs:44   HashMap<GlobalIdent, RuleIndex>
    inits,        \* values.rs:45   Vec<RuleIndex>
    lets,         \* values.rs:46   Vec<(&Let, RuleIndex)>
    phase,        \* position inside values::analyze
    cursor,       \* values.rs:156  rule_index of the outer for loop
    stack,        \* values.rs:154  explicit work stack
    evaluated,    \* values.rs:155  HashMap<RuleIndex, Value>
    errors,       \* values.rs:83   Vec<Error>
    result,       \* values.rs:141  ValuesResult of the current run
    first,        \* ValuesResult of the previous run on the same program
    uses_result,      \* semantics.rs:46  result of uses::analyze
    namespace_result, \* semantics.rs:47  result of namespace::analyze
    types_result,     \* semantics.rs:53  result of types::analyze
    immutable_lets,   \* semantics.rs:53  ImmutableLet errors of the type building
    src,          \* lexer.rs:35    source text (sequence of characters)
    lpos,         \* lexer.rs:36    offset of the remaining input (characters)
    tokens,       \* lexer.rs:37    tokens produced so far
    lphase,       \* position inside lex
    ptoks,        \* parser.rs:27   input token vector
    ppos,         \* parser.rs:44   offset of the token stream
    perrs,        \* token.rs:153   error_buffer of the token stream
    pphase        \* position inside parse

semVars   == <<uses_result, namespace_result, types_result, immutable_lets>>
valueVars == <<globals, rules, rule_table, inits, lets, phase, cursor, stack,
               evaluated, errors, result, first, uses_result, namespace_result,
               types_result, immutable_lets>>
lexVars   == <<src, lpos, tokens, lphase>>
parseVars == <<ptoks, ppos, perrs, pphase>>
vars      == <<globals, rules, rule_table, inits, lets, phase, cursor, stack,
               evaluated, errors, result, first, uses_result, namespace_result,
               types_result, immutable_lets, src, lpos, tokens, lphase, ptoks, ppos,
               perrs, pphase>>

(***************************************************************************)
(* Bounds                                                                  *)
(***************************************************************************)
MaxGlobals == 2

(***************************************************************************)
(* AST (ast.rs).  An absent Option is NoneE, a missing identifier is "".   *)
(* AstInfo ranges are modelled by the position of the node: the index of   *)
(* the global and the path of the node below it; a range lies inside       *)
(* another one iff the global is the same and the path is an extension.    *)
(***************************************************************************)
NoneE == [k |-> "none"]
ErrorE == [k |-> "error"]
PrimE(pk, v) == [k |-> "prim", pk |-> pk, v |-> v]
NamedE(n, app) == [k |-> "named", name |-> n, app |-> app]
FieldE(n, t, e) == [name |-> n, type |-> t, expr |-> e]
StructE(fields) == [k |-> "struct", fields |-> fields]
ListE(exprs) == [k |-> "list", exprs |-> exprs]
UnionE(alts) == [k |-> "union", alts |-> alts]
GlobalE(g, n, t, e) == [g |-> g, name |-> n, type |-> t, expr |-> e]

\* ast.rs:58-117  Use, UseBody, UseKind, UseItem; an alias is NoneE,
\* AliasE("ident", name) or AliasE("string", text)
AliasE(kind, n) == [k |-> kind, name |-> n]
UseItemE(n, body, alias) == [name |-> n, body |-> body, alias |-> alias]
AllB == [k |-> "all"]
SingleB(item) == [k |-> "single", item |-> item]
MultipleB(items) == [k |-> "multiple", items |-> items]
UseE(n, body, alias) ==
    [g |-> "use", name |-> n, body |-> body, alias |-> alias,
     type |-> NoneE, expr |-> NoneE]

BinderNames == {"a", "b"}
FlatNames == {"a::b"}
FieldNames == {"f", "g"}
\* types.rs:15-17, 42-47  the names of the built in types
BuiltIns == {"String", "Number", "Bool"}
\* the root names of use statements, and the local names a use can bind
Roots == {"m", "n"}
UseKeys == BinderNames \cup Roots

\* ast.rs:415 Ident::is_flattened: the name contains "::"
is_flattened(name) == name \in FlatNames

\* the one element of a singleton set: {e(x) : x \in {v}} names the value v
Only(S) == CHOOSE x \in S : TRUE
Info(g, path) == [g |-> g, path |-> path]
IsPrefix(p, q) == Len(p) <= Len(q) /\ SubSeq(q, 1, Len(p)) = p
Inside(inner, outer) == inner.g = outer.g /\ IsPrefix(outer.path, inner.path)

(***************************************************************************)
(* Values (eval/value.rs)                                                  *)
(***************************************************************************)
Unknown == [t |-> "Unknown"]
Absent == [t |-> "Absent"]
NullV == [t |-> "Null"]
BoolV(v) == [t |-> "Bool", v |-> v]
NumberV(v) == [t |-> "Number", v |-> v]
StringV(v) == [t |-> "String", v |-> v]
ListV(items) == [t |-> "List", items |-> items]
StructV(fields) == [t |-> "Struct", fields |-> fields]
NoFields == [n \in FieldNames |-> Absent]

\* a check of the top constructor only
is_known_shallow(v) == v.t # "Unknown"

RECURSIVE is_known(_)
is_known(v) ==
    CASE v.t = "Unknown" -> FALSE
      [] v.t \in {"Null", "Bool", "Number", "String"} -> TRUE
      [] v.t = "List" -> \A i \in 1..Len(v.items) : is_known(v.items[i])
      [] v.t = "Struct" ->
            \A n \in FieldNames : v.fields[n] = Absent \/ is_known(v.fields[n])

\* a merge that does not descend into fields present on both sides
merge_fields_shallow(this, other) ==
    IF this.t = "Struct" /\ other.t = "Struct"
    THEN StructV([n \in FieldNames |->
            IF this.fields[n] = Absent THEN other.fields[n] ELSE this.fields[n]])
    ELSE this

RECURSIVE merge_fields(_, _)
merge_fields(this, other) ==
    IF this.t = "Struct" /\ other.t = "Struct"
    THEN StructV([n \in FieldNames |->
            IF other.fields[n] = Absent THEN this.fields[n]
            ELSE IF this.fields[n] = Absent THEN other.fields[n]
            ELSE merge_fields(this.fields[n], other.fields[n])])
    ELSE this

\* eval.rs:63 Primitive::eval
PrimitiveEval(e) ==
    CASE e.pk = "String" -> StringV(e.v)
      [] e.pk = "Char"   -> StringV(e.v)
      [] e.pk = "Number" -> NumberV(e.v)
      [] e.pk = "Bool"   -> BoolV(e.v)
      [] e.pk = "Null"   -> NullV

(***************************************************************************)
(* Value rules (values.rs:15-33)                                           *)
(***************************************************************************)
DUnion(idx) == [k |-> "Union", idx |-> idx]
DStruct(map) == [k |-> "Struct", map |-> map]
DList(idx) == [k |-> "List", idx |-> idx]
DPrimitive(v) == [k |-> "Primitive", v |-> v]
DComposed(own, super) == [k |-> "Composed", own |-> own, super |-> super]
DRef(name) == [k |-> "Ref", name |-> name]
DEmpty == [k |-> "Empty"]
DUnknown == [k |-> "Unknown"]
NoMap == [n \in FieldNames |-> 0]

Rule(d, is_default, info) == [d |-> d, is_default |-> is_default, info |-> info]
PushRule(rs, d, is_default, info) == Append(rs, Rule(d, is_default, info))
Analyzed(rs, idx) == [rules |-> rs, idx |-> idx]

(***************************************************************************)
(* values/value_analysis.rs: the ValueAnalyzer impls                       *)
(***************************************************************************)
RECURSIVE VA_Expr(_, _, _), VA_Single(_, _, _), VA_Union(_, _, _),
          VA_Alternatives(_, _, _, _, _), VA_Named(_, _, _),
          VA_Struct(_, _, _), VA_Fields(_, _, _, _, _),
          VA_StructField(_, _, _), VA_List(_, _, _),
          VA_Exprs(_, _, _, _, _)

VA_Expr(e, rs, info) ==
    CASE e.k = "union" -> VA_Union(e, rs, info)
      [] e.k \in {"struct", "list", "named", "prim"} -> VA_Single(e, rs, info)
      [] OTHER -> Analyzed(PushRule(rs, DUnknown, FALSE, info), Len(rs) + 1)

\* alts[1] is Union::single, alts[2..] are the UnionAlternatives
VA_Alternatives(alts, i, rs, info, acc) ==
    IF i > Len(alts) THEN [rules |-> rs, idxs |-> acc]
    ELSE LET sub == Info(info.g, info.path \o <<i>>)
             r == IF alts[i].k = "none"
                  THEN Analyzed(PushRule(rs, DUnknown, FALSE, sub), Len(rs) + 1)
                  ELSE VA_Single(alts[i], rs, sub)
         IN VA_Alternatives(alts, i + 1, r.rules, info, Append(acc, r.idx))

VA_Union(e, rs, info) ==
    LET r == VA_Alternatives(e.alts, 1, rs, info, <<>>)
    IN Analyzed(PushRule(r.rules, DUnion(r.idxs), FALSE, info), Len(r.rules) + 1)

VA_Single(e, rs, info) ==
    CASE e.k = "struct" -> VA_Struct(e, rs, info)
      [] e.k = "list" -> VA_List(e, rs, info)
      [] e.k = "named" -> VA_Named(e, rs, info)
      [] e.k = "prim" ->
            Analyzed(PushRule(rs, DPrimitive(PrimitiveEval(e)), FALSE, info),
                     Len(rs) + 1)

VA_Named(e, rs, info) ==
    LET identInfo == IF e.app.k = "none" THEN info
                     ELSE Info(info.g, info.path \o <<0>>)
        rs1 == PushRule(rs, DRef(e.name), FALSE, identInfo)
        identIdx == Len(rs) + 1
        appInfo == Info(info.g, info.path \o <<1>>)
    IN IF e.app.k = "none" THEN Analyzed(rs1, identIdx)
       ELSE LET a == IF e.app.k = "struct" THEN VA_Struct(e.app, rs1, appInfo)
                     ELSE VA_List(e.app, rs1, appInfo)
            IN Analyzed(PushRule(a.rules, DComposed(a.idx, identIdx), FALSE, info),
                        Len(a.rules) + 1)

VA_Fields(fields, i, rs, info, map) ==
    IF i > Len(fields) THEN [rules |-> rs, map |-> map]
    ELSE LET r == VA_StructField(fields[i], rs, Info(info.g, info.path \o <<i>>))
         IN VA_Fields(fields, i + 1, r.rules, info,
                      [map EXCEPT ![fields[i].name] = r.idx])

\* the index returned is one past the rule that was pushed
VA_Struct_next(e, rs, info) ==
    LET r == VA_Fields(e.fields, 1, rs, info, NoMap)
    IN Analyzed(PushRule(r.rules, DStruct(r.map), FALSE, info), Len(r.rules) + 2)

\* values/value_analysis.rs:126-147
VA_Struct(e, rs, info) ==
    LET r == VA_Fields(e.fields, 1, rs, info, NoMap)
    IN Analyzed(PushRule(r.rules, DStruct(r.map), FALSE, info), Len(r.rules) + 1)

VA_Exprs(exprs, i, rs, info, acc) ==
    IF i > Len(exprs) THEN [rules |-> rs, idxs |-> acc]
    ELSE LET r == VA_Expr(exprs[i], rs, Info(info.g, info.path \o <<i>>))
         IN VA_Exprs(exprs, i + 1, r.rules, info, Append(acc, r.idx))

VA_List(e, rs, info) ==
    LET r == VA_Exprs(e.exprs, 1, rs, info, <<>>)
    IN Analyzed(PushRule(r.rules, DList(r.idxs), FALSE, info), Len(r.rules) + 1)

\* a field with only a type is an Empty rule
VA_StructField_empty(f, rs, info) ==
    LET t == IF f.type.k # "none"
             THEN VA_Expr(f.type, rs, Info(info.g, info.path \o <<1>>))
             ELSE Analyzed(rs, 0)
        x == IF f.expr.k # "none"
             THEN VA_Expr(f.expr, t.rules, Info(info.g, info.path \o <<2>>))
             ELSE Analyzed(t.rules, 0)
    IN CASE t.idx # 0 /\ x.idx # 0 ->
              Analyzed(PushRule(x.rules, DComposed(x.idx, t.idx), TRUE, info),
                       Len(x.rules) + 1)
         [] t.idx = 0 /\ x.idx # 0 ->
              Analyzed([x.rules EXCEPT ![x.idx].is_default = TRUE], x.idx)
         [] t.idx # 0 /\ x.idx = 0 ->
              Analyzed(PushRule(x.rules, DEmpty, FALSE, info), Len(x.rules) + 1)
         [] OTHER ->
              Analyzed(PushRule(x.rules, DEmpty, FALSE, info), Len(x.rules) + 1)

\* values/value_analysis.rs:163-203
VA_StructField(f, rs, info) ==
    LET t == IF f.type.k # "none"
             THEN VA_Expr(f.type, rs, Info(info.g, info.path \o <<1>>))
             ELSE Analyzed(rs, 0)
        x == IF f.expr.k # "none"
             THEN VA_Expr(f.expr, t.rules, Info(info.g, info.path \o <<2>>))
             ELSE Analyzed(t.rules, 0)
    IN CASE t.idx # 0 /\ x.idx # 0 ->
              Analyzed(PushRule(x.rules, DComposed(x.idx, t.idx), TRUE, info),
                       Len(x.rules) + 1)
         [] t.idx = 0 /\ x.idx # 0 ->
              Analyzed([x.rules EXCEPT ![x.idx].is_default = TRUE], x.idx)
         [] t.idx # 0 /\ x.idx = 0 ->
              Analyzed([x.rules EXCEPT ![t.idx].is_default = FALSE], t.idx)
         [] OTHER ->
              Analyzed(PushRule(x.rules, DEmpty, FALSE, info), Len(x.rules) + 1)

(***************************************************************************)
(* Programs: the globals values::analyze is run on                         *)
(***************************************************************************)
One == PrimE("Number", "1")
RefE(n) == NamedE(n, NoneE)

ExprCatalogue ==
    {One}
    \cup {RefE(n) : n \in BinderNames}
    \cup {StructE(<<FieldE("f", NoneE, RefE(n))>>) : n \in BinderNames}
    \cup {ListE(<<RefE("b")>>)}
    \cup {StructE(<<FieldE("f", NoneE, RefE("a::b")),
                    FieldE("g", NoneE, RefE("a::b"))>>)}
    \cup {UnionE(<<One, One>>)}
    \cup {StructE(<<FieldE("f", RefE("a"), UnionE(<<One, One>>))>>)}
    \cup {NamedE("a", StructE(<<FieldE("f", NoneE, One)>>))}
    \cup {StructE(<<FieldE("f", RefE("a"), NoneE)>>)}

Two == PrimE("Number", "2")

Binders == {<<"def", "a">>, <<"let", "a">>, <<"let", "b">>}

GlobalCatalogue ==
    {GlobalE(b[1], b[2], NoneE, e) : b \in Binders, e \in ExprCatalogue}
    \cup {GlobalE("init", "", NoneE, e) : e \in ExprCatalogue}

\* programs made of lets that reference each other, and one init
CyclicExprs ==
    {One, RefE("a"), RefE("b"), StructE(<<FieldE("f", NoneE, RefE("a"))>>),
     ListE(<<RefE("b")>>), NamedE("a", StructE(<<FieldE("f", NoneE, One)>>))}

CyclicCatalogue ==
    {GlobalE("let", n, NoneE, e) : n \in BinderNames, e \in CyclicExprs}
    \cup {GlobalE("init", "", NoneE, RefE("a"))}

\* programs made of a def with (nested) default values and of applied names
DefaultsDefs ==
    {One,
     StructE(<<FieldE("f", NoneE, One)>>),
     StructE(<<FieldE("f", NoneE, StructE(<<FieldE("f", NoneE, One),
                                            FieldE("g", NoneE, One)>>)),
               FieldE("g", NoneE, One)>>)}

DefaultsLiterals ==
    {StructE(<<>>),
     StructE(<<FieldE("f", NoneE, Two)>>),
     StructE(<<FieldE("g", NoneE, Two)>>),
     StructE(<<FieldE("f", NoneE, StructE(<<FieldE("f", NoneE, Two)>>))>>),
     ListE(<<Two>>)}

DefaultsCatalogue ==
    {GlobalE("def", "a", NoneE, e) : e \in DefaultsDefs}
    \cup {GlobalE("let", "b", NoneE, NamedE(n, l)) :
                n \in BinderNames, l \in DefaultsLiterals}
    \cup {GlobalE("init", "", NoneE, NamedE(n, l)) :
                n \in BinderNames, l \in DefaultsLiterals}

\* programs made of use statements and of binders of the names they import
ItemE(n) == UseItemE(n, NoneE, NoneE)
ItemAs(n, a) == UseItemE(n, NoneE, AliasE("ident", a))

UseCatalogue ==
    {UseE("m", NoneE, NoneE),                                  \* use m
     UseE("m", NoneE, AliasE("ident", "a")),                   \* use m as a
     UseE("m", NoneE, AliasE("string", "a")),                  \* use m as "a"
     UseE("m", SingleB(ItemE("a")), NoneE),                    \* use m::a
     UseE("n", SingleB(ItemE("a")), NoneE),                    \* use n::a
     UseE("n", SingleB(ItemAs("a", "b")), NoneE),              \* use n::a as b
     UseE("m", MultipleB(<<ItemE("a"), ItemE("b")>>), NoneE),  \* use m::{a b}
     UseE("m", MultipleB(<<ItemE("a"), ItemE("a")>>), NoneE),  \* use m::{a a}
     UseE("n", MultipleB(<<ItemE("b"), ItemE("a")>>), NoneE),  \* use n::{b a}
     UseE("n", MultipleB(<<ItemE("a"), ItemAs("b", "a"), ItemE("a")>>),
          NoneE),                                              \* use n::{a b as a a}
     UseE("m", AllB, NoneE),                                   \* use m::*
     UseE("m", SingleB(UseItemE("a", MultipleB(<<ItemE("a"), ItemE("b")>>),
                                AliasE("ident", "b"))),
          NoneE)}                                              \* use m::a::{a b} as b

SemanticsCatalogue ==
    UseCatalogue
    \cup {GlobalE(b[1], b[2], NoneE, e) :
            b \in Binders \cup {<<"def", "b">>}, e \in {One, RefE("a"), RefE("b")}}
    \cup {GlobalE("init", "", NoneE, RefE("a"))}

\* programs made of use statements whose items carry an alias: the item b
\* of `use m::b ...` with no body, and with every kind of body
AliasedItems ==
    {ItemAs("b", "a"),                                          \* b as a
     UseItemE("b", SingleB(ItemE("a")), NoneE),                 \* b::a
     UseItemE("b", SingleB(ItemAs("a", "b")), NoneE),           \* b::a as b
     UseItemE("b", SingleB(ItemAs("a", "b")), AliasE("ident", "a")),
                                                                \* b::a as b as a
     UseItemE("b", MultipleB(<<ItemE("a")>>), AliasE("ident", "a")),
                                                                \* b::{a} as a
     UseItemE("b", MultipleB(<<ItemAs("a", "b")>>), NoneE),     \* b::{a as b}
     UseItemE("b", AllB, AliasE("ident", "a")),                 \* b::* as a
     UseItemE("b", ErrorE, AliasE("ident", "a")),               \* b::= as a
     UseItemE("b", ErrorE, NoneE)}                              \* b::=

AliasCatalogue ==
    {UseE("m", SingleB(item), NoneE) : item \in AliasedItems}
    \cup {UseE("n", MultipleB(<<ItemE("a"), item>>), NoneE) : item \in AliasedItems}
    \cup {GlobalE("let", "a", NoneE, One)}

\* programs made of imports and of bindings that use an imported, a built
\* in, a defined or an undefined name as a type
ImportsCatalogue ==
    {UseE("m", NoneE, NoneE),                                  \* use m
     UseE("m", SingleB(ItemE("a")), NoneE),                    \* use m::a
     UseE("n", SingleB(ItemAs("a", "b")), NoneE),              \* use n::a as b
     UseE("m", MultipleB(<<ItemE("a"), ItemE("b")>>), NoneE)}  \* use m::{a b}
    \cup {GlobalE("def", "b", RefE(n), e) :
            n \in {"a", "m", "Number"},
            e \in {PrimE("Number", "1"), StructE(<<>>), RefE("a")}}
    \cup {GlobalE("let", "a", NoneE, PrimE("Number", "1")),
          GlobalE("init", "", NoneE, NamedE("a", StructE(<<>>))),
          GlobalE("init", "", NoneE, NamedE("b", ListE(<<RefE("a")>>)))}

\* programs made of type definitions and of values checked against them
Str == PrimE("String", "s")
TypeOf(n) == RefE(n)
Field(n, t) == FieldE(n, t, NoneE)
Default(n, e) == FieldE(n, NoneE, e)

StructTypes ==
    {StructE(<<Field("f", TypeOf("Number"))>>),
     StructE(<<Field("f", TypeOf("Number")), FieldE("g", TypeOf("Number"), One)>>),
     StructE(<<Field("f", StructE(<<Field("g", TypeOf("Number"))>>)),
               Default("g", One)>>),
     StructE(<<Default("f", One)>>),
     StructE(<<Field("f", UnionE(<<TypeOf("String"), TypeOf("Number")>>))>>)}

UnionTypes ==
    {UnionE(<<TypeOf("String"), TypeOf("Number")>>),
     UnionE(<<TypeOf("String"), TypeOf("Bool")>>),
     UnionE(<<One, Two>>),
     UnionE(<<Two, Str, One>>),
     UnionE(<<RefE("a"), One>>)}

StructLiterals ==
    {StructE(<<>>),
     StructE(<<Default("f", One)>>),
     StructE(<<Default("g", Two)>>),
     StructE(<<Default("f", One), Default("g", Two)>>),
     StructE(<<Default("f", StructE(<<Default("g", One)>>))>>),
     StructE(<<Default("f", StructE(<<>>))>>),
     StructE(<<Default("f", Str)>>),
     StructE(<<FieldE("f", UnionE(<<TypeOf("String"), TypeOf("Bool")>>), Str)>>),
     StructE(<<FieldE("f", TypeOf("String"), Str)>>)}

ListType == ListE(<<UnionE(<<RefE("a"), TypeOf("String")>>)>>)
ListLiteral == ListE(<<Str, ListE(<<Str>>)>>)

\* programs made of structs whose fields have a type, a value, both or
\* neither (semantics/tests.rs:513-550 nested_default)
FieldShapes ==
    {Field("f", TypeOf("Number")),                       \* f: Number
     Field("f", One),                                    \* f: 1
     Field("f", RefE("b")),                              \* f: b
     Field("f", StructE(<<FieldE("f", TypeOf("Number"), One),
                          Field("g", TypeOf("Number"))>>)),
     Default("f", One),                                  \* f = 1
     Default("f", RefE("b")),                            \* f = b
     FieldE("f", TypeOf("Number"), One),                 \* f: Number = 1
     FieldE("f", TypeOf("Number"), NoneE),
     FieldE("g", NoneE, NoneE)}                          \* g

FieldsCatalogue ==
    {GlobalE("def", "a", NoneE, StructE(<<f>>)) : f \in FieldShapes}
    \cup {GlobalE("def", "a", NoneE,
                  StructE(<<Field("f", TypeOf("Number")), FieldE("g", NoneE, NoneE)>>)),
          GlobalE("let", "b", NoneE, One),
          GlobalE("init", "", NoneE, NamedE("a", StructE(<<Default("f", Two)>>)))}

TypesCatalogue ==
    {GlobalE("def", "a", NoneE, e) : e \in StructTypes \cup UnionTypes \cup {ListType, One}}
    \cup {GlobalE("def", "b", RefE("a"), e) :
            e \in StructLiterals \cup UnionTypes \cup {One, ListLiteral}}
    \cup {GlobalE("def", "b", t, e) : t \in UnionTypes, e \in UnionTypes \cup {One}}
    \cup {GlobalE("let", "a", NoneE, e) :
            e \in {One, StructE(<<Default("f", One)>>), RefE("b")}}
    \cup {GlobalE("init", "", NoneE, NamedE(n, e)) :
            n \in BinderNames, e \in StructLiterals \cup {ListLiteral}}
    \cup {GlobalE(g, "a", NoneE, RefE("a")) : g \in {"def", "let"}}
    \cup {GlobalE(g, "a", RefE("a"), StructE(<<>>)) : g \in {"def", "let"}}
    \cup {GlobalE(g, "a", NoneE, NamedE("a", StructE(<<Default("f", One)>>))) :
            g \in {"def", "let"}}

(***************************************************************************)
(* values.rs:48-82  the loop body of values::analyze for one global        *)
(***************************************************************************)
TableInsert(table, name, idx) ==
    IF name \in DOMAIN table THEN [table EXCEPT ![name] = idx] ELSE table
TableGet(table, name) == IF name \in DOMAIN table THEN table[name] ELSE 0

Built(rs, table, is, ls) == [rules |-> rs, rule_table |-> table, inits |-> is, lets |-> ls]

\* values.rs:50-61  Global::Def: r is the analysed expression
ValuesDef(r, name, table, is, ls) ==
    Built(r.rules,
          IF name # "" THEN TableInsert(table, name, r.idx) ELSE table,
          is, ls)

\* values.rs:62-74  Global::Let
ValuesLet(r, gi, name, table, is, ls) ==
    Built(r.rules,
          IF name # "" THEN TableInsert(table, name, r.idx) ELSE table,
          is, Append(ls, [g |-> gi, idx |-> r.idx]))

\* values.rs:75-79  Global::Init
ValuesInitGlobal(r, table, is, ls) == Built(r.rules, table, Append(is, r.idx), ls)

ValuesGlobal(gl, gi, rs, table, is, ls) ==
    CASE gl.g = "def" /\ gl.expr.k # "none" ->
            ValuesDef(VA_Expr(gl.expr, rs, Info(gi, <<2>>)), gl.name, table, is, ls)
      [] gl.g = "let" /\ gl.expr.k # "none" ->
            ValuesLet(VA_Expr(gl.expr, rs, Info(gi, <<2>>)), gi, gl.name, table, is, ls)
      [] gl.g = "init" ->
            ValuesInitGlobal(VA_Expr(gl.expr, rs, Info(gi, <<>>)), table, is, ls)
      [] OTHER -> Built(rs, table, is, ls)

(***************************************************************************)
(* values.rs:148-313  evaluate                                             *)
(***************************************************************************)
NotEvaluated == [t |-> "NotEvaluated"]
NoResult == [t |-> "NoResult"]
Error(message, range) == [message |-> message, range |-> range]
\* an error whose message carries a name, e.g. DuplicateUse(name)
NamedError(message, name, range) ==
    [message |-> message, name |-> name, range |-> range]

Range(s) == {s[i] : i \in 1..Len(s)}
contains_key(ev, idx) == ev[idx] # NotEvaluated
\* evaluated.get(i).cloned().unwrap_or(Value::Unknown)
GetOrUnknown(ev, idx) == IF contains_key(ev, idx) THEN ev[idx] ELSE Unknown

Orders(S) ==
    {s \in [1..Cardinality(S) -> S] : \A i, j \in 1..Cardinality(S) : i # j => s[i] # s[j]}

\* the detected rule is left unbound
CycleBind_skip(ev, idx) == ev

\* the detected rule is bound to a known value
CycleBind_null(ev, idx) == [ev EXCEPT ![idx] = NullV]

\* values.rs:167-172  the rule is popped while it is still on the stack
CycleBind(ev, idx) == [ev EXCEPT ![idx] = Unknown]

\* only a Ref waits for the rule it is bound to
Dependencies_refs(rule, ev, table) ==
    IF rule.d.k = "Ref" /\ TableGet(table, rule.d.name) # 0
       /\ ~contains_key(ev, TableGet(table, rule.d.name))
    THEN {<<TableGet(table, rule.d.name)>>} ELSE {<<>>}

\* values.rs:176-250  the orders in which the unevaluated dependencies of a
\* rule can be pushed; HashMap::values() iterates in an arbitrary order
Dependencies(rule, ev, table) ==
    LET d == rule.d
        unevaluated(s) == SelectSeq(s, LAMBDA i : ~contains_key(ev, i))
    IN CASE d.k \in {"Union", "List"} -> {unevaluated(d.idx)}
         [] d.k = "Struct" ->
              Orders({d.map[n] : n \in {m \in FieldNames : d.map[m] # 0
                                           /\ ~contains_key(ev, d.map[m])}})
         [] d.k = "Composed" -> {unevaluated(<<d.own, d.super>>)}
         [] d.k = "Ref" ->
              {unevaluated(IF TableGet(table, d.name) # 0
                           THEN <<TableGet(table, d.name)>> ELSE <<>>)}
         [] OTHER -> {<<>>}

\* values.rs:232-238
RefErrors(rule) ==
    IF rule.d.k = "Ref" /\ is_flattened(rule.d.name)
    THEN <<Error("Unsupported", rule.info)>> ELSE <<>>

\* a Ref is never looked up
EvaluateRule_unbound(rule, ev, table) ==
    LET d == rule.d
    IN CASE d.k = "Union" -> Unknown
         [] d.k = "Struct" ->
              StructV([n \in FieldNames |->
                        IF d.map[n] = 0 THEN Absent ELSE GetOrUnknown(ev, d.map[n])])
         [] d.k = "List" -> ListV([i \in 1..Len(d.idx) |-> GetOrUnknown(ev, d.idx[i])])
         [] d.k = "Composed" ->
              merge_fields(GetOrUnknown(ev, d.own), GetOrUnknown(ev, d.super))
         [] d.k = "Primitive" -> d.v
         [] OTHER -> Unknown

\* values.rs:253-309
EvaluateRule(rule, ev, table) ==
    LET d == rule.d
    IN CASE d.k = "Union" -> Unknown
         [] d.k = "Struct" ->
              StructV([n \in FieldNames |->
                        IF d.map[n] = 0 THEN Absent ELSE GetOrUnknown(ev, d.map[n])])
         [] d.k = "List" -> ListV([i \in 1..Len(d.idx) |-> GetOrUnknown(ev, d.idx[i])])
         [] d.k = "Composed" ->
              merge_fields(GetOrUnknown(ev, d.own), GetOrUnknown(ev, d.super))
         [] d.k = "Primitive" -> d.v
         [] d.k = "Ref" ->
              IF TableGet(table, d.name) # 0 THEN ev[TableGet(table, d.name)]
              ELSE Unknown
         [] OTHER -> Unknown

(***************************************************************************)
(* types/analysis.rs  the errors of the build pass of the type analysis    *)
(***************************************************************************)
\* ast.rs:285 Named::name, the first ident of a (possibly flattened) name
NamedHead(name) == IF name = "a::b" THEN "a" ELSE name

\* only a name without an applied struct or list counts
check_self_reference_unapplied(name, e) ==
    e.k = "named" /\ e.app.k = "none" /\ NamedHead(e.name) = name

\* analysis.rs:39-41
check_self_reference(name, e) == e.k = "named" /\ NamedHead(e.name) = name

\* analysis.rs:393-403: the errors pushed for the rule of expression e
analyze_union_in_init(e, info) ==
    IF e.k = "union" THEN <<Error("UnionInInit", info)>> ELSE <<>>

RECURSIVE TA_Expr(_, _), TA_Seq(_, _, _, _), TA_Struct(_, _),
          TA_Fields(_, _, _, _), TA_StructField(_, _), DuplicateFields(_, _, _, _)

\* analysis.rs:209-332  Expr, Union, Single, List and Named
TA_Expr(e, info) ==
    CASE e.k = "union" -> TA_Seq(e.alts, 1, info, <<>>)
      [] e.k = "struct" -> TA_Struct(e, info)
      [] e.k = "list" -> TA_Seq(e.exprs, 1, info, <<>>)
      [] e.k = "named" /\ e.app.k # "none" ->
            TA_Expr(e.app, Info(info.g, info.path \o <<1>>))
      [] OTHER -> <<>>

TA_Seq(exprs, i, info, acc) ==
    IF i > Len(exprs) THEN acc
    ELSE TA_Seq(exprs, i + 1, info,
                acc \o TA_Expr(exprs[i], Info(info.g, info.path \o <<i>>)))

\* analysis.rs:273-283  a field whose name was seen before in the struct
DuplicateFields(fields, i, info, acc) ==
    IF i > Len(fields) THEN acc
    ELSE DuplicateFields(fields, i + 1, info,
            IF \E j \in 1..(i - 1) : fields[j].name = fields[i].name
            THEN Append(acc, Error("DuplicateField", Info(info.g, info.path \o <<i>>)))
            ELSE acc)

TA_Fields(fields, i, info, acc) ==
    IF i > Len(fields) THEN acc
    ELSE TA_Fields(fields, i + 1, info,
                   acc \o TA_StructField(fields[i], Info(info.g, info.path \o <<i>>)))

\* analysis.rs:268-302
TA_Struct(e, info) ==
    TA_Fields(e.fields, 1, info, <<>>) \o DuplicateFields(e.fields, 1, info, <<>>)

\* analysis.rs:304-345
TA_StructField(f, info) ==
    (IF f.type.k # "none" THEN TA_Expr(f.type, Info(info.g, info.path \o <<1>>))
     ELSE <<>>)
    \o (IF f.expr.k # "none"
        THEN TA_Expr(f.expr, Info(info.g, info.path \o <<2>>))
             \o analyze_union_in_init(f.expr, Info(info.g, info.path \o <<2>>))
        ELSE <<>>)

TypeBuilt(idents, errs) == [idents |-> idents, errors |-> errs]

\* analysis.rs:73-88  the entry of the binding's name in type_info.idents
DeclareIdent(gl, gi, t) ==
    IF gl.name = "" THEN t
    ELSE IF gl.name \in t.idents
    THEN TypeBuilt(t.idents, Append(t.errors, Error("Redeclaration", Info(gi, <<0>>))))
    ELSE IF gl.type.k # "none" \/ gl.expr.k # "none"
    THEN TypeBuilt(t.idents \cup {gl.name}, t.errors)
    ELSE t

\* analysis.rs:32-89
analyze_binding(gl, gi, t, is_let) ==
    IF gl.name # "" /\ (check_self_reference(gl.name, gl.type)
                        \/ check_self_reference(gl.name, gl.expr))
    THEN TypeBuilt(t.idents, Append(t.errors, Error("SelfReference", Info(gi, <<0>>))))
    ELSE DeclareIdent(gl, gi,
            TypeBuilt(t.idents,
                t.errors
                \o (IF gl.type.k # "none" THEN TA_Expr(gl.type, Info(gi, <<1>>)) ELSE <<>>)
                \o (IF gl.expr.k # "none" THEN TA_Expr(gl.expr, Info(gi, <<2>>)) ELSE <<>>)
                \o (IF is_let /\ gl.expr.k # "none"
                    THEN analyze_union_in_init(gl.expr, Info(gi, <<2>>)) ELSE <<>>)))

\* ast.rs:69-78, 107-116  Use::identifier, UseItem::identifier
identifier(name, alias) == IF alias.k = "ident" THEN alias.name ELSE name

\* analysis.rs:166-177  the entry of a terminal item in type_info.idents
DeclareImport(item, info, t) ==
    IF identifier(item.name, item.alias) \in t.idents
    THEN TypeBuilt(t.idents,
                   Append(t.errors,
                          Error("Redeclaration",
                                IF item.alias.k = "ident"
                                THEN Info(info.g, info.path \o <<0, 1>>)
                                ELSE Info(info.g, info.path \o <<2>>))))
    ELSE TypeBuilt(t.idents \cup {identifier(item.name, item.alias)}, t.errors)

RECURSIVE TU_Item(_, _, _), TU_Body(_, _, _), TU_Items(_, _, _, _)

\* analysis.rs:126-179
TU_Item(item, info, t) ==
    IF item.body.k # "none"
    THEN IF ~TU_Body(item.body, info, t).is_single /\ item.alias.k # "none"
         THEN TypeBuilt(TU_Body(item.body, info, t).idents,
                        Append(TU_Body(item.body, info, t).errors,
                               Error("AliasingNonSingle",
                                     Info(info.g, info.path \o <<0>>))))
         ELSE TypeBuilt(TU_Body(item.body, info, t).idents,
                        TU_Body(item.body, info, t).errors)
    ELSE DeclareImport(item, info, t)

\* analysis.rs:93-122
TU_Body(body, info, t) ==
    CASE body.k = "all" ->
            [idents |-> t.idents,
             errors |-> Append(t.errors,
                               NamedError("Unsupported", "glob import",
                                          Info(info.g, info.path \o <<1>>))),
             is_single |-> FALSE]
      [] body.k = "single" ->
            [idents |-> TU_Item(body.item, Info(info.g, info.path \o <<1>>), t).idents,
             errors |-> TU_Item(body.item, Info(info.g, info.path \o <<1>>), t).errors,
             is_single |-> TRUE]
      [] body.k = "multiple" ->
            [idents |-> TU_Items(body.items, 1, info, t).idents,
             errors |-> TU_Items(body.items, 1, info, t).errors,
             is_single |-> FALSE]
      [] OTHER -> [idents |-> t.idents, errors |-> t.errors, is_single |-> FALSE]

TU_Items(items, i, info, t) ==
    IF i > Len(items) THEN t
    ELSE TU_Items(items, i + 1, info,
                  TU_Item(items[i], Info(info.g, info.path \o <<i>>), t))

\* analysis.rs:91-198
analyze_use_types(u, gi, t) ==
    IF u.name # "" /\ u.body.k # "none"
    THEN TypeBuilt(TU_Body(u.body, Info(gi, <<>>), t).idents,
                   TU_Body(u.body, Info(gi, <<>>), t).errors)
    ELSE t

\* types.rs:92-107  the loop over the globals
RECURSIVE TypesBuild(_, _, _)
TypesBuild(gs, gi, t) ==
    IF gi > Len(gs) THEN t
    ELSE TypesBuild(gs, gi + 1,
            CASE gs[gi].g = "def" -> analyze_binding(gs[gi], gi, t, FALSE)
              [] gs[gi].g = "let" -> analyze_binding(gs[gi], gi, t, TRUE)
              [] gs[gi].g = "init" ->
                    TypeBuilt(t.idents, t.errors \o TA_Expr(gs[gi].expr, Info(gi, <<>>)))
              [] gs[gi].g = "use" -> analyze_use_types(gs[gi], gi, t)
              [] OTHER -> t)

TypeBuildErrors(gs) == TypesBuild(gs, 1, TypeBuilt({}, <<>>)).errors

(***************************************************************************)
(* types.rs, types/analysis.rs: the rules, assertions and idents of the    *)
(* type analysis (TypeInfo); its build errors are TypeBuildErrors above.   *)
(***************************************************************************)
TUnion(idx) == [k |-> "Union", idx |-> idx]
TStruct(map) == [k |-> "Struct", map |-> map]
TList(idx) == [k |-> "List", idx |-> idx]
TIdent(name) == [k |-> "Ident", name |-> name]
TValidIdent(idx) == [k |-> "ValidIdent", idx |-> idx]
TPrimitive(e) == [k |-> "Primitive", pk |-> e.pk, v |-> e.v]
TRuleRef(idx) == [k |-> "Rule", idx |-> idx]
TImport == [k |-> "Import"]
TBuiltIn(b) == [k |-> "BuiltIn", b |-> b]
TUnknown == [k |-> "Unknown"]
TypeRule(d, info) == [d |-> d, info |-> info]

\* a field of TypeDescription::Struct: (RuleIndex, has default), and the
\* info of the key; idx 0 stands for an absent key
NoField == [idx |-> 0, has_default |-> FALSE, info |-> Info(0, <<>>)]
NoFieldMap == [n \in FieldNames |-> NoField]
NoTypeIdents == [n \in UseKeys |-> 0]

TypeInfo(rs, assertions, idents) ==
    [rules |-> rs, assertions |-> assertions, idents |-> idents]
Typed(t, idx) == [t |-> t, idx |-> idx]
PushType(t, d, info) ==
    Typed(TypeInfo(Append(t.rules, TypeRule(d, info)), t.assertions, t.idents),
          Len(t.rules) + 1)
PushAssertion(t, expected, actual) ==
    TypeInfo(t.rules, Append(t.assertions, <<expected, actual>>), t.idents)
IsUnionRule(t, idx) == t.rules[idx].d.k = "Union"

RECURSIVE TY_Expr(_, _, _), TY_Alternatives(_, _, _, _, _), TY_Fields(_, _, _, _, _),
          TY_StructField(_, _, _), TY_Exprs(_, _, _, _, _), TY_Named(_, _, _)

\* analysis.rs:209-257, 344-358, 382-391  Expr, Union, Single, List, Primitive
TY_Expr(e, t, info) ==
    CASE e.k = "union" ->
            Only({PushType(r.t, TUnion(r.idxs), info) :
                    r \in {TY_Alternatives(e.alts, 1, t, info, <<>>)}})
      [] e.k = "struct" ->
            Only({PushType(r.t, TStruct(r.map), info) :
                    r \in {TY_Fields(e.fields, 1, t, info, NoFieldMap)}})
      [] e.k = "list" ->
            Only({PushType(r.t, TList(r.idxs), info) :
                    r \in {TY_Exprs(e.exprs, 1, t, info, <<>>)}})
      [] e.k = "named" -> TY_Named(e, t, info)
      [] e.k = "prim" -> PushType(t, TPrimitive(e), info)
      [] OTHER -> PushType(t, TUnknown, info)

\* analysis.rs:228-238  an alternative without a single adds no rule
TY_Alternatives(alts, i, t, info, acc) ==
    IF i > Len(alts) THEN [t |-> t, idxs |-> acc]
    ELSE IF alts[i].k = "none" THEN TY_Alternatives(alts, i + 1, t, info, acc)
    ELSE Only({TY_Alternatives(alts, i + 1, r.t, info, Append(acc, r.idx)) :
                 r \in {TY_Expr(alts[i], t, Info(info.g, info.path \o <<i>>))}})

\* analysis.rs:272-293  collect() keeps the first key and the last value
TY_Fields(fields, i, t, info, map) ==
    IF i > Len(fields) THEN [t |-> t, map |-> map]
    ELSE Only({TY_Fields(fields, i + 1, r.t, info,
                 [map EXCEPT ![fields[i].name] =
                     [idx |-> r.idx,
                      has_default |-> fields[i].expr.k # "none",
                      info |-> IF map[fields[i].name].idx = 0
                               THEN Info(info.g, info.path \o <<i, 0>>)
                               ELSE map[fields[i].name].info]]) :
                 r \in {TY_StructField(fields[i], t, Info(info.g, info.path \o <<i>>))}})

\* analysis.rs:304-342
TY_StructField(f, t, info) ==
    CASE f.type.k # "none" /\ f.expr.k # "none" ->
            Only({Only({PushType(IF IsUnionRule(x.t, x.idx) THEN x.t
                                 ELSE PushAssertion(x.t, ty.idx, x.idx),
                                 TRuleRef(ty.idx), info) :
                          x \in {TY_Expr(f.expr, ty.t, Info(info.g, info.path \o <<2>>))}}) :
                    ty \in {TY_Expr(f.type, t, Info(info.g, info.path \o <<1>>))}})
      [] f.type.k # "none" ->
            Only({PushType(ty.t, TRuleRef(ty.idx), info) :
                    ty \in {TY_Expr(f.type, t, Info(info.g, info.path \o <<1>>))}})
      [] f.expr.k # "none" ->
            Only({PushType(x.t, TRuleRef(x.idx), info) :
                    x \in {TY_Expr(f.expr, t, Info(info.g, info.path \o <<2>>))}})
      [] OTHER -> PushType(t, TUnknown, info)

TY_Exprs(exprs, i, t, info, acc) ==
    IF i > Len(exprs) THEN [t |-> t, idxs |-> acc]
    ELSE Only({TY_Exprs(exprs, i + 1, r.t, info, Append(acc, r.idx)) :
                 r \in {TY_Expr(exprs[i], t, Info(info.g, info.path \o <<i>>))}})

\* analysis.rs:360-380  the rule of the name comes first and is returned
TY_Named(e, t, info) ==
    IF e.app.k = "none" THEN PushType(t, TIdent(e.name), info)
    ELSE Only({Only({Typed(PushAssertion(a.t, n.idx, a.idx), n.idx) :
                       a \in {TY_Expr(e.app, n.t, Info(info.g, info.path \o <<1>>))}}) :
                 n \in {PushType(t, TIdent(e.name), Info(info.g, info.path \o <<0>>))}})

\* analysis.rs:32-89  the rules, the assertion and the ident of a def or let
TY_Binding(gl, t, gi, is_let) ==
    IF gl.name # "" /\ (check_self_reference(gl.name, gl.type)
                        \/ check_self_reference(gl.name, gl.expr))
    THEN t
    ELSE Only({Only({
            TypeInfo(x.t.rules,
                     IF ty.idx # 0 /\ x.idx # 0 /\ ~(is_let /\ IsUnionRule(x.t, x.idx))
                     THEN Append(x.t.assertions, <<ty.idx, x.idx>>)
                     ELSE x.t.assertions,
                     IF gl.name # "" /\ x.t.idents[gl.name] = 0
                     THEN [x.t.idents EXCEPT ![gl.name] =
                              IF ty.idx # 0 THEN ty.idx ELSE x.idx]
                     ELSE x.t.idents) :
            x \in {IF gl.expr.k # "none" THEN TY_Expr(gl.expr, ty.t, Info(gi, <<2>>))
                   ELSE Typed(ty.t, 0)}}) :
         ty \in {IF gl.type.k # "none" THEN TY_Expr(gl.type, t, Info(gi, <<1>>))
                 ELSE Typed(t, 0)}})

RECURSIVE TY_UseItem(_, _, _), TY_UseItems(_, _, _, _)

\* analysis.rs:126-179  a terminal item adds an Import rule and its ident
TY_UseItem(item, t, info) ==
    CASE item.body.k = "single" ->
            TY_UseItem(item.body.item, t, Info(info.g, info.path \o <<1>>))
      [] item.body.k = "multiple" -> TY_UseItems(item.body.items, 1, t, info)
      [] item.body.k # "none" -> t
      [] OTHER ->
            Only({TypeInfo(r.t.rules, r.t.assertions,
                           IF r.t.idents[identifier(item.name, item.alias)] = 0
                           THEN [r.t.idents EXCEPT
                                    ![identifier(item.name, item.alias)] = r.idx]
                           ELSE r.t.idents) :
                    r \in {PushType(t, TImport, info)}})

TY_UseItems(items, i, t, info) ==
    IF i > Len(items) THEN t
    ELSE TY_UseItems(items, i + 1,
                     TY_UseItem(items[i], t, Info(info.g, info.path \o <<i>>)), info)

\* analysis.rs:181-197
TY_Use(u, t, gi) ==
    CASE u.name # "" /\ u.body.k = "single" ->
            TY_UseItem(u.body.item, t, Info(gi, <<1>>))
      [] u.name # "" /\ u.body.k = "multiple" ->
            TY_UseItems(u.body.items, 1, t, Info(gi, <<>>))
      [] u.name # "" /\ u.body.k = "none" -> PushType(t, TImport, Info(gi, <<>>)).t
      [] OTHER -> t

\* types.rs:90-100
RECURSIVE TypeRules(_, _, _)
TypeRules(gs, gi, t) ==
    IF gi > Len(gs) THEN t
    ELSE TypeRules(gs, gi + 1,
            CASE gs[gi].g = "use" -> TY_Use(gs[gi], t, gi)
              [] gs[gi].g = "def" -> TY_Binding(gs[gi], t, gi, FALSE)
              [] gs[gi].g = "let" -> TY_Binding(gs[gi], t, gi, TRUE)
              [] gs[gi].g = "init" -> TY_Expr(gs[gi].expr, t, Info(gi, <<>>)).t
              [] OTHER -> t)

IdentIndex(idents, name) == IF name \in DOMAIN idents THEN idents[name] ELSE 0

\* lookup_imports is left out: an Import rule stays
ValidatedRules_imports(t) ==
    [i \in 1..Len(t.rules) |->
        CASE t.rules[i].d.k = "Ident" ->
                TypeRule(IF IdentIndex(t.idents, t.rules[i].d.name) # 0
                         THEN TValidIdent(IdentIndex(t.idents, t.rules[i].d.name))
                         ELSE IF t.rules[i].d.name \in BuiltIns
                         THEN TBuiltIn(t.rules[i].d.name)
                         ELSE TUnknown,
                         t.rules[i].info)
          [] OTHER -> t.rules[i]]

\* types.rs:127-148, 112-119  validate_idents, then lookup_imports
ValidatedRules(t) ==
    [i \in 1..Len(t.rules) |->
        CASE t.rules[i].d.k = "Ident" ->
                TypeRule(IF IdentIndex(t.idents, t.rules[i].d.name) # 0
                         THEN TValidIdent(IdentIndex(t.idents, t.rules[i].d.name))
                         ELSE IF t.rules[i].d.name \in BuiltIns
                         THEN TBuiltIn(t.rules[i].d.name)
                         ELSE TUnknown,
                         t.rules[i].info)
          [] t.rules[i].d.k = "Import" -> TypeRule(TUnknown, t.rules[i].info)
          [] OTHER -> t.rules[i]]

\* types.rs:137-143
ValidateErrors(t) ==
    LET bad == SelectSeq([i \in 1..Len(t.rules) |-> i], LAMBDA i :
                   /\ t.rules[i].d.k = "Ident"
                   /\ IdentIndex(t.idents, t.rules[i].d.name) = 0
                   /\ t.rules[i].d.name \notin BuiltIns)
    IN [j \in 1..Len(bad) |->
            NamedError("UndefinedIdent", t.rules[bad[j]].d.name, t.rules[bad[j]].info)]

(***************************************************************************)
(* types/assertions.rs.  A check yields the set of the error vectors it    *)
(* can return: HashMap iteration (assertions.rs:70, 82) visits the fields  *)
(* in any order.  A recursion that never returns (it overflows the stack)  *)
(* is reported by the vector Overflow.                                     *)
(***************************************************************************)
Overflow == <<Error("stack overflow", Info(0, <<>>))>>
HasOverflow(R) == \E r \in R : \E i \in 1..Len(r) : r[i].message = "stack overflow"
ConcatAll(A, B) == {a \o b : a \in A, b \in B}

\* assertions.rs:163-180  the rule a chain of ValidIdent and Rule ends in;
\* 0 if the chain is a cycle
RECURSIVE extract_type_description(_, _, _)
extract_type_description(rs, idx, seen) ==
    IF rs[idx].d.k \in {"ValidIdent", "Rule"}
    THEN IF rs[idx].d.idx \in seen \cup {idx} THEN 0
         ELSE extract_type_description(rs, rs[idx].d.idx, seen \cup {idx})
    ELSE idx

\* types.rs:64-71 BuiltInType::matches
matches(b, pk) == <<b, pk>> \in {<<"String", "String">>, <<"Number", "Number">>,
                                 <<"Bool", "Bool">>}

RECURSIVE check_rules(_, _, _, _), Accepted(_, _, _, _, _), check_union(_, _, _, _, _),
          check_struct_fields(_, _, _, _, _, _, _), check_list_elements(_, _, _, _, _)

\* assertions.rs:35-37, 49-56  whether one of expected[j..] accepts the
\* actual rule: "yes", "no", or "overflow" if a check on the way never returns
Accepted(rs, expected, j, actual, seen) ==
    IF j > Len(expected) THEN "no"
    ELSE Only({IF HasOverflow(r) THEN "overflow"
               ELSE IF r = {<<>>} THEN "yes"
               ELSE Accepted(rs, expected, j + 1, actual, seen) :
                 r \in {check_rules(rs, expected[j], actual, seen)}})

\* every alternative is accepted, whatever the expected alternatives are
check_union_lenient(rs, expected, actual, i, seen) == {<<>>}

\* assertions.rs:26-46  actual[i..] against the expected alternatives
check_union(rs, expected, actual, i, seen) ==
    IF i > Len(actual) THEN {<<>>}
    ELSE Only({IF a = "overflow" THEN {Overflow}
               ELSE ConcatAll(IF a = "yes" THEN {<<>>}
                              ELSE {<<Error("TypeMismatch", rs[actual[i]].info)>>},
                              check_union(rs, expected, actual, i + 1, seen)) :
                 a \in {Accepted(rs, expected, 1, actual[i], seen)}})

\* assertions.rs:48-61
check_in_union(rs, expected, actual, seen) ==
    Only({IF a = "overflow" THEN {Overflow}
          ELSE IF a = "yes" THEN {<<>>}
          ELSE {<<Error("TypeMismatch", rs[actual].info)>>} :
            a \in {Accepted(rs, expected, 1, actual, seen)}})

\* a missing field is reported also when the expected field has a default
MissingField_strict(field, has_default, range) ==
    <<NamedError("MissingField", field, range)>>

\* assertions.rs:75-80
MissingField(field, has_default, range) ==
    IF has_default THEN <<>> ELSE <<NamedError("MissingField", field, range)>>

\* assertions.rs:70-81  the expected fields, visited in the order o
check_struct_fields(rs, expected, actual_rule, actual, o, i, seen) ==
    IF i > Len(o) THEN {<<>>}
    ELSE ConcatAll(
            IF actual[o[i]].idx # 0
            THEN check_rules(rs, expected[o[i]].idx, actual[o[i]].idx, seen)
            ELSE {MissingField(o[i], expected[o[i]].has_default, rs[actual_rule].info)},
            check_struct_fields(rs, expected, actual_rule, actual, o, i + 1, seen))

\* assertions.rs:82-89  the actual fields, visited in the order o
UnexpectedFields(actual, o) ==
    [j \in 1..Len(o) |-> NamedError("UnexpecedField", o[j], actual[o[j]].info)]

\* assertions.rs:63-91
check_struct(rs, expected, actual_rule, actual, seen) ==
    UNION {ConcatAll(check_struct_fields(rs, expected, actual_rule, actual, o, 1, seen),
                     {UnexpectedFields(actual, u) :
                        u \in Orders({n \in FieldNames :
                                        actual[n].idx # 0 /\ expected[n].idx = 0})}) :
             o \in Orders({n \in FieldNames : expected[n].idx # 0})}

\* assertions.rs:112-119
check_list_elements(rs, expected, actual, i, seen) ==
    IF i > Len(actual) THEN {<<>>}
    ELSE ConcatAll(check_rules(rs, expected, actual[i], seen),
                   check_list_elements(rs, expected, actual, i + 1, seen))

\* assertions.rs:93-131
check_list(rs, expected, actual, seen) ==
    CASE Len(expected) = 0 ->
            {[j \in 1..Len(actual) |-> Error("UnexpecedListElement", rs[actual[j]].info)]}
      [] Len(expected) = 1 -> check_list_elements(rs, expected[1], actual, 1, seen)
      [] OTHER ->
            {[j \in 1..(Len(expected) - 1) |->
                Error("MultipleListTypes", rs[expected[j + 1]].info)]}

\* assertions.rs:133-161  check_built_in, check_primitive, check_value
check_built_in(expected, actual, range) ==
    IF expected = actual THEN <<>> ELSE <<Error("TypeMismatch", range)>>
check_primitive(expected, actual, range) ==
    IF expected.pk = actual.pk /\ expected.v = actual.v THEN <<>>
    ELSE <<Error("ValueMismatch", range)>>
check_value(expected, actual, range) ==
    IF matches(expected, actual.pk) THEN <<>> ELSE <<Error("ValueMismatch", range)>>

\* assertions.rs:182-230  e and a are the extracted rules
CheckExtracted(rs, expected_rule, actual_rule, e, a, seen) ==
    CASE e = 0 \/ a = 0 -> {Overflow}
      [] rs[e].d.k = "Union" /\ rs[a].d.k = "Union" ->
            check_union(rs, rs[e].d.idx, rs[a].d.idx, 1, seen)
      [] rs[e].d.k = "Union" -> check_in_union(rs, rs[e].d.idx, actual_rule, seen)
      [] rs[e].d.k = "Unknown" -> {<<Error("UnknownType", rs[expected_rule].info)>>}
      [] rs[e].d.k = "BuiltIn" /\ rs[a].d.k = "Primitive" ->
            {check_value(rs[e].d.b, rs[a].d, rs[a].info)}
      [] rs[e].d.k = "BuiltIn" /\ rs[a].d.k = "BuiltIn" ->
            {check_built_in(rs[e].d.b, rs[a].d.b, rs[actual_rule].info)}
      [] rs[e].d.k = "Struct" /\ rs[a].d.k = "Struct" ->
            check_struct(rs, rs[e].d.map, actual_rule, rs[a].d.map, seen)
      [] rs[e].d.k = "List" /\ rs[a].d.k = "List" ->
            check_list(rs, rs[e].d.idx, rs[a].d.idx, seen)
      [] rs[e].d.k = "Primitive" /\ rs[a].d.k = "Primitive" ->
            {check_primitive(rs[e].d, rs[a].d, rs[a].info)}
      [] OTHER -> {<<Error("TypeMismatch", rs[actual_rule].info)>>}

check_rules(rs, expected_rule, actual_rule, seen) ==
    IF <<expected_rule, actual_rule>> \in seen THEN {Overflow}
    ELSE Only({CheckExtracted(rs, expected_rule, actual_rule, x[1], x[2],
                              seen \cup {<<expected_rule, actual_rule>>}) :
                 x \in {<<extract_type_description(rs, expected_rule, {}),
                          extract_type_description(rs, actual_rule, {})>>}})

\* assertions.rs:12-24
RECURSIVE check(_, _, _)
check(rs, assertions, i) ==
    IF i > Len(assertions) THEN {<<>>}
    ELSE ConcatAll(check_rules(rs, assertions[i][1], assertions[i][2], {}),
                   check(rs, assertions, i + 1))

TypesResult(rs, assertions, idents, errs) ==
    [rules |-> rs, assertions |-> assertions, idents |-> idents, errors |-> errs]

\* types.rs:88-105  the TypeInfo values types::analyze can return; {} if it
\* does not return
TypesAnalyze(gs) ==
    Only({Only({IF HasOverflow(c) THEN {}
                ELSE {TypesResult(ValidatedRules(t), t.assertions, t.idents,
                                  TypeBuildErrors(gs) \o ValidateErrors(t) \o e) :
                        e \in c} :
                  c \in {check(ValidatedRules(t), t.assertions, 1)}}) :
            t \in {TypeRules(gs, 1, TypeInfo(<<>>, <<>>, NoTypeIdents))}})

(***************************************************************************)
(* Use statements (ast.rs) and semantics/uses.rs.  A GlobalIdent is the    *)
(* sequence root, path[0], path[1], ...; an absent map entry is NoPath.    *)
(* HashMap iteration (uses.rs:26, 100) visits the new idents in any order, *)
(* so an analysis yields the set of its possible outcomes.                 *)
(***************************************************************************)
NoPath == <<>>
NoIdents == [k \in UseKeys |-> NoPath]
UseOutcome(idents, errs, is_single) ==
    [idents |-> idents, errors |-> errs, is_single |-> is_single]

\* the first entry of a local name is replaced by a later one
MergeIdents_last(acc, new, info) ==
    {UseOutcome([k \in UseKeys |->
                    IF new.idents[k] # NoPath THEN new.idents[k] ELSE acc.idents[k]],
                acc.errors \o new.errors, FALSE)}

\* uses.rs:24-40, 98-114  the closure of the fold: new idents are entered
\* unless their key is occupied, which is reported at `info`
MergeIdents(acc, new, info) ==
    {UseOutcome([k \in UseKeys |->
                    IF acc.idents[k] # NoPath THEN acc.idents[k] ELSE new.idents[k]],
                acc.errors
                \o [j \in 1..Len(o) |-> NamedError("DuplicateUse", o[j], info)]
                \o new.errors,
                FALSE) :
        o \in Orders({k \in UseKeys : new.idents[k] # NoPath /\ acc.idents[k] # NoPath})}

RECURSIVE analyze_item(_, _, _), analyze_body(_, _, _), FoldItems(_, _, _, _, _)

\* the alias of an item with a body is reported whatever the body is
analyze_item_any(item, path_stack, info) ==
    IF item.body.k # "none"
    THEN {IF item.alias.k # "none"
          THEN UseOutcome(r.idents,
                          Append(r.errors,
                                 Error("AliasingNonSingle",
                                       Info(info.g, info.path \o <<0>>))),
                          FALSE)
          ELSE UseOutcome(r.idents, r.errors, FALSE) :
            r \in analyze_body(item.body, Append(path_stack, item.name), info)}
    ELSE {UseOutcome([NoIdents EXCEPT ![identifier(item.name, item.alias)] =
                            Append(path_stack, item.name)],
                     <<>>, FALSE)}

\* uses.rs:124-156
analyze_item(item, path_stack, info) ==
    IF item.body.k # "none"
    THEN {IF ~r.is_single /\ item.alias.k # "none"
          THEN UseOutcome(r.idents,
                          Append(r.errors,
                                 Error("AliasingNonSingle",
                                       Info(info.g, info.path \o <<0>>))),
                          FALSE)
          ELSE UseOutcome(r.idents, r.errors, FALSE) :
            r \in analyze_body(item.body, Append(path_stack, item.name), info)}
    ELSE {UseOutcome([NoIdents EXCEPT ![identifier(item.name, item.alias)] =
                            Append(path_stack, item.name)],
                     <<>>, FALSE)}

\* uses.rs:66-122
analyze_body(body, path_stack, info) ==
    CASE body.k = "all" ->
            {UseOutcome(NoIdents,
                        <<NamedError("Unsupported", "glob import",
                                     Info(info.g, info.path \o <<1>>))>>,
                        FALSE)}
      [] body.k = "single" ->
            {UseOutcome(r.idents, r.errors, TRUE) :
                r \in analyze_item(body.item, path_stack,
                                   Info(info.g, info.path \o <<1>>))}
      [] body.k = "multiple" ->
            FoldItems(body.items, 1, path_stack, info,
                      {UseOutcome(NoIdents, <<>>, FALSE)})
      [] OTHER -> {UseOutcome(NoIdents, <<>>, FALSE)}

\* uses.rs:88-116
FoldItems(items, i, path_stack, info, acc) ==
    IF i > Len(items) THEN acc
    ELSE FoldItems(items, i + 1, path_stack, info,
            UNION {MergeIdents(a, n, Info(info.g, info.path \o <<i>>)) :
                     a \in acc,
                     n \in analyze_item(items[i], path_stack,
                                        Info(info.g, info.path \o <<i>>))})

\* uses.rs:45-64
analyze_use(u, gi) ==
    CASE u.name # "" /\ u.body.k # "none" ->
            analyze_body(u.body, <<u.name>>, Info(gi, <<>>))
      [] u.name # "" /\ u.body.k = "none" ->
            {UseOutcome([NoIdents EXCEPT ![identifier(u.name, u.alias)] = <<u.name>>],
                        <<>>, FALSE)}
      [] OTHER -> {UseOutcome(NoIdents, <<>>, FALSE)}

\* uses.rs:9-43
RECURSIVE FoldUses(_, _, _)
FoldUses(gs, gi, acc) ==
    IF gi > Len(gs) THEN acc
    ELSE FoldUses(gs, gi + 1,
            IF gs[gi].g = "use"
            THEN UNION {MergeIdents(a, n, Info(gi, <<>>)) :
                          a \in acc, n \in analyze_use(gs[gi], gi)}
            ELSE acc)

UsesAnalyze(gs) == FoldUses(gs, 1, {UseOutcome(NoIdents, <<>>, FALSE)})

(***************************************************************************)
(* semantics/namespace.rs                                                  *)
(***************************************************************************)
NoBindings == [n \in BinderNames |-> "None"]
NamespaceResult(namespace, bindings, errs) ==
    [namespace |-> namespace, bindings |-> bindings, errors |-> errs]
NamespaceGet(namespace, n) == IF n \in DOMAIN namespace THEN namespace[n] ELSE NoPath

\* a later binder replaces the entry of the name
Declare_last(gl, gi, binding, r) ==
    NamespaceResult([r.namespace EXCEPT ![gl.name] = <<"root", gl.name>>],
                    [r.bindings EXCEPT ![gl.name] = binding],
                    r.errors)

\* namespace.rs:51-63  the entry of one def or let name
Declare(gl, gi, binding, r) ==
    IF r.namespace[gl.name] = NoPath
    THEN NamespaceResult([r.namespace EXCEPT ![gl.name] = <<"root", gl.name>>],
                         [r.bindings EXCEPT ![gl.name] = binding],
                         r.errors)
    ELSE NamespaceResult(r.namespace, r.bindings,
                         Append(r.errors,
                                NamedError("Redeclaration", gl.name, Info(gi, <<0>>))))

\* namespace.rs:28-64
RECURSIVE DeclareNames(_, _, _)
DeclareNames(gs, gi, r) ==
    IF gi > Len(gs) THEN r
    ELSE DeclareNames(gs, gi + 1,
            CASE gs[gi].g = "def" /\ gs[gi].name # "" -> Declare(gs[gi], gi, "Def", r)
              [] gs[gi].g = "let" /\ gs[gi].name # "" -> Declare(gs[gi], gi, "Let", r)
              [] OTHER -> r)

\* namespace.rs:100-155  the Named nodes of an expression, in source order
RECURSIVE get_named(_, _), get_named_seq(_, _, _, _), get_named_fields(_, _, _, _)
get_named(e, info) ==
    CASE e.k = "union" -> get_named_seq(e.alts, 1, info, <<>>)
      [] e.k = "list" -> get_named_seq(e.exprs, 1, info, <<>>)
      [] e.k = "struct" -> get_named_fields(e.fields, 1, info, <<>>)
      [] e.k = "named" ->
            <<[name |-> e.name,
               info |-> IF e.app.k = "none" THEN info
                        ELSE Info(info.g, info.path \o <<0>>)]>>
            \o (IF e.app.k = "none" THEN <<>>
                ELSE get_named(e.app, Info(info.g, info.path \o <<1>>)))
      [] OTHER -> <<>>

get_named_seq(exprs, i, info, acc) ==
    IF i > Len(exprs) THEN acc
    ELSE get_named_seq(exprs, i + 1, info,
            acc \o get_named(exprs[i], Info(info.g, info.path \o <<i>>)))

\* namespace.rs:119-125 get_named_typed_expr on every field
get_named_fields(fields, i, info, acc) ==
    IF i > Len(fields) THEN acc
    ELSE get_named_fields(fields, i + 1, info,
            acc \o get_named(fields[i].type, Info(info.g, info.path \o <<i, 1>>))
                \o get_named(fields[i].expr, Info(info.g, info.path \o <<i, 2>>)))

\* namespace.rs:65-75
RECURSIVE AllNamed(_, _, _)
AllNamed(gs, gi, acc) ==
    IF gi > Len(gs) THEN acc
    ELSE AllNamed(gs, gi + 1,
            CASE gs[gi].g \in {"def", "let"} ->
                    acc \o get_named(gs[gi].type, Info(gi, <<1>>))
                        \o get_named(gs[gi].expr, Info(gi, <<2>>))
              [] gs[gi].g = "init" -> acc \o get_named(gs[gi].expr, Info(gi, <<>>))
              [] OTHER -> acc)

\* namespace.rs:76-90
UndefinedIdents(namespace, named) ==
    LET bad == SelectSeq(named, LAMBDA x :
                   /\ NamespaceGet(namespace, NamedHead(x.name)) = NoPath
                   /\ ~(~is_flattened(x.name) /\ x.name \in BuiltIns))
    IN [j \in 1..Len(bad) |->
            NamedError("UndefinedIdent", NamedHead(bad[j].name), bad[j].info)]

\* namespace.rs:23-98
NamespaceAnalyze(uses, gs) ==
    LET r == DeclareNames(gs, 1, NamespaceResult(uses, NoBindings, <<>>))
    IN NamespaceResult(r.namespace, r.bindings,
                       r.errors \o UndefinedIdents(r.namespace, AllNamed(gs, 1, <<>>)))

(***************************************************************************)
(* The use of the bindings in the type building (semantics.rs:53 hands the *)
(* namespace and the bindings to types::analyze): an applied name whose    *)
(* binding is a let is reported as ImmutableLet at the name.  The type     *)
(* building of a self-referential def or let stops at the SelfReference    *)
(* error (analysis.rs:43-51) and visits no expression.                     *)
(***************************************************************************)
\* the applied Named nodes of an expression, in source order
RECURSIVE get_applied(_, _), get_applied_seq(_, _, _, _), get_applied_fields(_, _, _, _)
get_applied(e, info) ==
    CASE e.k = "union" -> get_applied_seq(e.alts, 1, info, <<>>)
      [] e.k = "list" -> get_applied_seq(e.exprs, 1, info, <<>>)
      [] e.k = "struct" -> get_applied_fields(e.fields, 1, info, <<>>)
      [] e.k = "named" /\ e.app.k # "none" ->
            <<[name |-> e.name, info |-> Info(info.g, info.path \o <<0>>)]>>
            \o get_applied(e.app, Info(info.g, info.path \o <<1>>))
      [] OTHER -> <<>>

get_applied_seq(exprs, i, info, acc) ==
    IF i > Len(exprs) THEN acc
    ELSE get_applied_seq(exprs, i + 1, info,
            acc \o get_applied(exprs[i], Info(info.g, info.path \o <<i>>)))

get_applied_fields(fields, i, info, acc) ==
    IF i > Len(fields) THEN acc
    ELSE get_applied_fields(fields, i + 1, info,
            acc \o get_applied(fields[i].type, Info(info.g, info.path \o <<i, 1>>))
                \o get_applied(fields[i].expr, Info(info.g, info.path \o <<i, 2>>)))

\* the applied names the type building visits in the global gl
AppliedIn(gl, gi) ==
    CASE gl.g \in {"def", "let"} ->
            IF gl.name # "" /\ (check_self_reference(gl.name, gl.type)
                                \/ check_self_reference(gl.name, gl.expr))
            THEN <<>>
            ELSE get_applied(gl.type, Info(gi, <<1>>))
                 \o get_applied(gl.expr, Info(gi, <<2>>))
      [] gl.g = "init" -> get_applied(gl.expr, Info(gi, <<>>))
      [] OTHER -> <<>>

BindingKind(bindings, name) ==
    IF NamedHead(name) \in DOMAIN bindings THEN bindings[NamedHead(name)] ELSE "None"

\* every applied name is reported, whatever its binding
ImmutableLetsOf_any(applied, bindings) ==
    [j \in 1..Len(applied) |->
        NamedError("ImmutableLet", NamedHead(applied[j].name), applied[j].info)]

ImmutableLetsOf(applied, bindings) ==
    LET bad == SelectSeq(applied, LAMBDA x : BindingKind(bindings, x.name) = "Let")
    IN [j \in 1..Len(bad) |->
            NamedError("ImmutableLet", NamedHead(bad[j].name), bad[j].info)]

RECURSIVE ImmutableLets(_, _, _)
ImmutableLets(gs, gi, bindings) ==
    IF gi > Len(gs) THEN <<>>
    ELSE ImmutableLetsOf(AppliedIn(gs[gi], gi), bindings)
         \o ImmutableLets(gs, gi + 1, bindings)

(***************************************************************************)
(* values.rs:85-139  the checks after evaluation                           *)
(***************************************************************************)
DefaultErrors(rs, ev) ==
    LET bad == SelectSeq([i \in 1..Len(rs) |-> i],
                         LAMBDA i : rs[i].is_default /\ ~is_known(ev[i]))
    IN [j \in 1..Len(bad) |-> Error("UninitializedDefault", rs[bad[j]].info)]

LetErrors(ls, ev) ==
    LET bad == SelectSeq(ls, LAMBDA l : ~is_known(ev[l.idx]))
    IN [j \in 1..Len(bad) |-> Error("UninitializedLet", Info(bad[j].g, <<>>))]

SymbolTable(table, ev) ==
    [n \in DOMAIN table |-> IF table[n] = 0 THEN Absent ELSE ev[table[n]]]

MultipleInitsErrors(is, rs) ==
    [j \in 1..(IF Len(is) > 0 THEN Len(is) - 1 ELSE 0) |->
        Error("MultipleInits", rs[is[j + 1]].info)]

\* only the first init is returned
InitValues_first(is, ev) == IF is = <<>> THEN <<>> ELSE <<ev[is[1]]>>

InitValues(is, ev) == [j \in 1..Len(is) |-> ev[is[j]]]

InitErrors(is, rs, ev) ==
    LET bad == SelectSeq(is, LAMBDA i : ~is_known(ev[i]))
    IN [j \in 1..Len(bad) |-> Error("UninitializedInit", rs[bad[j]].info)]

ValuesResult(is, table, errs) == [inits |-> is, symbol_table |-> table, errors |-> errs]

\* the value analysis contributes only when the earlier analyses were clean
SemanticsResult_short(earlier, values) ==
    [inits |-> values.inits, symbol_table |-> values.symbol_table,
     errors |-> IF earlier # <<>> THEN earlier ELSE values.errors]

\* semantics.rs:45-67  the errors of the earlier analyses come first
SemanticsResult(earlier, values) ==
    [inits |-> values.inits, symbol_table |-> values.symbol_table,
     errors |-> earlier \o values.errors]

(***************************************************************************)
(* Actions of values::analyze                                              *)
(***************************************************************************)
EmptyTable == [n \in BinderNames |-> 0]

ValuesInit ==
    /\ globals = <<>>
    /\ rules = <<>>
    /\ rule_table = EmptyTable
    /\ inits = <<>>
    /\ lets = <<>>
    /\ phase = "build"
    /\ cursor = 1
    /\ stack = <<>>
    /\ evaluated = <<>>
    /\ errors = <<>>
    /\ result = NoResult
    /\ first = NoResult
    /\ uses_result = NoResult
    /\ namespace_result = NoResult
    /\ types_result = NoResult
    /\ immutable_lets = <<>>

\* the state of values::analyze after one more global
Install(gl, b) ==
    /\ globals' = Append(globals, gl)
    /\ rules' = b.rules
    /\ rule_table' = b.rule_table
    /\ inits' = b.inits
    /\ lets' = b.lets

\* values.rs:48-82, one iteration, on a global of the catalogue
AnalyzeFrom(catalogue) ==
    /\ phase = "build"
    /\ Len(globals) < MaxGlobals
    /\ \E gl \in catalogue :
          Install(gl, ValuesGlobal(gl, Len(globals) + 1, rules, rule_table, inits, lets))
    /\ UNCHANGED <<phase, cursor, stack, evaluated, errors, result, first>>
    /\ UNCHANGED semVars

AnalyzeGlobal == AnalyzeFrom(GlobalCatalogue)
AnalyzeDefaults == AnalyzeFrom(DefaultsCatalogue)
AnalyzeCyclic == AnalyzeFrom(CyclicCatalogue)
AnalyzeSemantics == AnalyzeFrom(SemanticsCatalogue)
AnalyzeTypes == AnalyzeFrom(TypesCatalogue)
AnalyzeFields == AnalyzeFrom(FieldsCatalogue)
AnalyzeAliases == AnalyzeFrom(AliasCatalogue)
AnalyzeImports == AnalyzeFrom(ImportsCatalogue)

\* values.rs:83-84, 154-155
StartEvaluate ==
    /\ phase = "build"
    /\ phase' = "eval"
    /\ cursor' = 1
    /\ stack' = <<>>
    /\ evaluated' = [i \in 1..Len(rules) |-> NotEvaluated]
    /\ errors' = <<>>
    /\ UNCHANGED <<globals, rules, rule_table, inits, lets, result, first>>
    /\ UNCHANGED semVars

\* values.rs:156-160
ForRule ==
    /\ phase = "eval"
    /\ stack = <<>>
    /\ cursor <= Len(rules)
    /\ cursor' = cursor + 1
    /\ stack' = IF contains_key(evaluated, cursor) THEN stack ELSE <<cursor>>
    /\ UNCHANGED <<globals, rules, rule_table, inits, lets, phase, evaluated,
                   errors, result, first>>
    /\ UNCHANGED semVars

\* values.rs:161-310, one iteration of the while loop
PopRule ==
    /\ phase = "eval"
    /\ stack # <<>>
    /\ LET rule_index == stack[Len(stack)]
           rest == SubSeq(stack, 1, Len(stack) - 1)
           rule == rules[rule_index]
       IN IF contains_key(evaluated, rule_index)
          THEN stack' = rest /\ UNCHANGED <<evaluated, errors>>
          ELSE IF rule_index \in Range(rest)
          THEN /\ evaluated' = CycleBind(evaluated, rule_index)
               /\ stack' = rest
               /\ UNCHANGED errors
          ELSE \E deps \in Dependencies(rule, evaluated, rule_table) :
                 /\ errors' = errors \o RefErrors(rule)
                 /\ IF deps # <<>>
                    THEN /\ stack' = rest \o <<rule_index>> \o deps
                         /\ UNCHANGED evaluated
                    ELSE /\ stack' = rest
                         /\ evaluated' = [evaluated EXCEPT ![rule_index] =
                                EvaluateRule(rule, evaluated, rule_table)]
    /\ UNCHANGED <<globals, rules, rule_table, inits, lets, phase, cursor,
                   result, first>>
    /\ UNCHANGED semVars

\* values.rs:85-139  the errors of values::analyze, in the order they are pushed
ValueErrors(errs, rs, ev, is, ls) ==
    errs \o DefaultErrors(rs, ev) \o LetErrors(ls, ev)
         \o MultipleInitsErrors(is, rs) \o InitErrors(is, rs, ev)

\* values.rs:85-146 and semantics.rs:45-67: the use, namespace and type
\* analyses are functions of the program, their result is composed here
PostChecks ==
    /\ phase = "eval"
    /\ stack = <<>>
    /\ cursor > Len(rules)
    /\ errors' = ValueErrors(errors, rules, evaluated, inits, lets)
    /\ \E u \in UsesAnalyze(globals), t \in TypesAnalyze(globals) :
          /\ uses_result' = u
          /\ namespace_result' = NamespaceAnalyze(u.idents, globals)
          /\ types_result' = t
          /\ immutable_lets' = ImmutableLets(globals, 1, namespace_result'.bindings)
          /\ result' = SemanticsResult(
                           u.errors \o namespace_result'.errors \o t.errors,
                           ValuesResult(InitValues(inits, evaluated),
                                        SymbolTable(rule_table, evaluated), errors'))
    /\ phase' = "done"
    /\ UNCHANGED <<globals, rules, rule_table, inits, lets, cursor, stack,
                   evaluated, first>>

\* assertions.rs:163-230  the recursion of the type check does not end on
\* this program: semantics::analyze returns nothing
TypesOverflow ==
    /\ phase = "eval"
    /\ stack = <<>>
    /\ cursor > Len(rules)
    /\ TypesAnalyze(globals) = {}
    /\ errors' = ValueErrors(errors, rules, evaluated, inits, lets)
    /\ phase' = "overflow"
    /\ UNCHANGED <<globals, rules, rule_table, inits, lets, cursor, stack,
                   evaluated, result, first>>
    /\ UNCHANGED semVars

\* a second run of semantics::analyze on the same program
AnalyzeAgain ==
    /\ phase = "done"
    /\ first = NoResult
    /\ first' = result
    /\ result' = NoResult
    /\ phase' = "eval"
    /\ cursor' = 1
    /\ stack' = <<>>
    /\ evaluated' = [i \in 1..Len(rules) |-> NotEvaluated]
    /\ errors' = <<>>
    /\ UNCHANGED <<globals, rules, rule_table, inits, lets>>
    /\ UNCHANGED semVars

(***************************************************************************)
(* lexer.rs: source texts are sequences of characters                      *)
(***************************************************************************)
MaxSrcLen == 3

\* the characters of the sources: ASCII ones, U+0142 and U+00E9
Chars == {"a", "s", "1", ".", "'", "\\", "\"", "/", "\n", ":", "U+0142", "U+00E9"}

\* the Unicode scalar value of a character
CodePoint(c) ==
    CASE c = "a" -> 97 [] c = "s" -> 115 [] c = "1" -> 49 [] c = "." -> 46
      [] c = "'" -> 39 [] c = "\\" -> 92 [] c = "\"" -> 34 [] c = "/" -> 47
      [] c = "\n" -> 10 [] c = ":" -> 58 [] c = "U+0142" -> 322 [] c = "U+00E9" -> 233

\* the length of the UTF-8 encoding of a character: offsets count bytes
Width(c) == IF CodePoint(c) < 128 THEN 1 ELSE 2

RECURSIVE ByteLen(_)
ByteLen(r) == IF r = <<>> THEN 0 ELSE Width(Head(r)) + ByteLen(Tail(r))

\* nom::character::is_alphanumeric on a byte
is_alphanumeric(b) == b \in 48..57 \/ b \in 65..90 \/ b \in 97..122

\* lexer/utility.rs:14-16: the char is cast to u8 before the test
is_alpha_numeric(c) == is_alphanumeric(CodePoint(c) % 256) \/ c = "_"

is_digit(c) == c = "1"
is_multispace(c) == c = "\n"

IsPrefixOf(tag, r) == Len(tag) <= Len(r) /\ SubSeq(r, 1, Len(tag)) = tag

\* the length of the longest prefix of r whose characters satisfy P
RECURSIVE TakeWhile(_, _)
TakeWhile(P(_), r) ==
    IF r = <<>> \/ ~P(Head(r)) THEN 0 ELSE 1 + TakeWhile(P, Tail(r))

Lexed(type, n, err) == [ok |-> TRUE, type |-> type, n |-> n, err |-> err]
LexFail == [ok |-> FALSE, type |-> "", n |-> 0, err |-> ""]

\* lexer.rs:82-90 the symbols and lexer.rs:91-96 the keywords, in alt order
SymbolTags ==
    << <<"LBracket", <<"[">> >>, <<"RBracket", <<"]">> >>, <<"LCurly", <<"{">> >>,
       <<"RCurly", <<"}">> >>, <<"DoubleColon", <<":", ":">> >>, <<"Star", <<"*">> >>,
       <<"Pipe", <<"|">> >>, <<"Eq", <<"=">> >>, <<"Colon", <<":">> >> >>
KeywordTags ==
    << <<"Use", <<"u", "s", "e">> >>, <<"Def", <<"d", "e", "f">> >>,
       <<"Let", <<"l", "e", "t">> >>, <<"As", <<"a", "s">> >>,
       <<"True", <<"t", "r", "u", "e">> >>, <<"False", <<"f", "a", "l", "s", "e">> >> >>

\* lexer.rs:49-58
lex_symbol(r, i) == IsPrefixOf(SymbolTags[i][2], r)

\* lexer.rs:62-77: the next character must not be alpha_numeric
lex_keyword(r, i) ==
    /\ IsPrefixOf(KeywordTags[i][2], r)
    /\ \/ Len(r) = Len(KeywordTags[i][2])
       \/ ~is_alpha_numeric(r[Len(KeywordTags[i][2]) + 1])

FirstIn(S) == CHOOSE i \in S : \A j \in S : i <= j

\* lexer.rs:110-120
StringLex(r) ==
    IF r # <<>> /\ Head(r) = "\"" /\ \E j \in 2..Len(r) : r[j] = "\""
    THEN Lexed("String", FirstIn({j \in 2..Len(r) : r[j] = "\""}), "")
    ELSE LexFail

\* lexer.rs:126-135: the characters taken after the opening quote
CharBody(r) ==
    IF Len(r) >= 3 /\ r[2] = "\\" THEN 2
    ELSE IF Len(r) >= 2 /\ r[2] = "'" THEN 0
    ELSE IF Len(r) >= 2 THEN 1
    ELSE -1

\* lexer.rs:122-144
CharLex(r) ==
    IF r = <<>> \/ Head(r) # "'" \/ CharBody(r) < 0 THEN LexFail
    ELSE IF Len(r) >= CharBody(r) + 2 /\ r[CharBody(r) + 2] = "'"
    THEN Lexed("Char", CharBody(r) + 2, "")
    ELSE Lexed("Char", CharBody(r) + 1, "MissingClosingSingleQuote")

\* lexer.rs:146-172
NumberLex(r) ==
    IF TakeWhile(is_digit, r) = 0 THEN LexFail
    ELSE IF Len(r) > TakeWhile(is_digit, r) /\ r[TakeWhile(is_digit, r) + 1] = "."
    THEN IF TakeWhile(is_digit, SubSeq(r, TakeWhile(is_digit, r) + 2, Len(r))) = 0
         THEN Lexed("Number", TakeWhile(is_digit, r) + 1, "MissingDecimals")
         ELSE Lexed("Number",
                    TakeWhile(is_digit, r) + 1
                    + TakeWhile(is_digit, SubSeq(r, TakeWhile(is_digit, r) + 2, Len(r))),
                    "")
    ELSE Lexed("Number", TakeWhile(is_digit, r), "")

\* lexer.rs:174-185
IdentLex(r) ==
    IF TakeWhile(is_alpha_numeric, r) = 0 THEN LexFail
    ELSE Lexed("Ident", TakeWhile(is_alpha_numeric, r), "")

\* lexer.rs:187-199
WhitespaceLex(r) ==
    IF TakeWhile(is_multispace, r) = 0 THEN LexFail
    ELSE Lexed("Whitespace", TakeWhile(is_multispace, r), "")

\* lexer.rs:201-210
CommentLex(r) ==
    IF IsPrefixOf(<<"/", "/">>, r) /\ \E j \in 3..Len(r) : r[j] = "\n"
    THEN Lexed("Comment", FirstIn({j \in 3..Len(r) : r[j] = "\n"}), "")
    ELSE LexFail

\* only a one-byte character is taken
UnknownLex_ascii(r) ==
    IF r = <<>> \/ Width(Head(r)) > 1 THEN LexFail ELSE Lexed("Unknown", 1, "Unknown")

\* lexer.rs:212-222
UnknownLex(r) == IF r = <<>> THEN LexFail ELSE Lexed("Unknown", 1, "Unknown")

\* lexer.rs:79-108: the first alternative that succeeds
TokenLex(r) ==
    IF \E i \in 1..Len(SymbolTags) : lex_symbol(r, i)
    THEN Lexed(SymbolTags[FirstIn({i \in 1..Len(SymbolTags) : lex_symbol(r, i)})][1],
               Len(SymbolTags[FirstIn({i \in 1..Len(SymbolTags) : lex_symbol(r, i)})][2]),
               "")
    ELSE IF \E i \in 1..Len(KeywordTags) : lex_keyword(r, i)
    THEN Lexed(KeywordTags[FirstIn({i \in 1..Len(KeywordTags) : lex_keyword(r, i)})][1],
               Len(KeywordTags[FirstIn({i \in 1..Len(KeywordTags) : lex_keyword(r, i)})][2]),
               "")
    ELSE IF StringLex(r).ok THEN StringLex(r)
    ELSE IF CharLex(r).ok THEN CharLex(r)
    ELSE IF NumberLex(r).ok THEN NumberLex(r)
    ELSE IF IdentLex(r).ok THEN IdentLex(r)
    ELSE IF CommentLex(r).ok THEN CommentLex(r)
    ELSE IF WhitespaceLex(r).ok THEN WhitespaceLex(r)
    ELSE UnknownLex(r)

\* token.rs:78-82: the range holds byte offsets
Token(type, start, end, err) == [type |-> type, start |-> start, end |-> end, err |-> err]

\* lexer/utility.rs:21-38 with lexer.rs:135-141 and 155-167: the error of
\* expect lies at the offset where the expected part is missing, which is
\* the end of the token; lexer.rs:218-219: Unknown spans its token
TextError(message, start, end) == [message |-> message, start |-> start, end |-> end]
token_errors(t) ==
    IF t.err = "" THEN {}
    ELSE IF t.err = "Unknown" THEN {TextError(t.err, t.start, t.end)}
    ELSE {TextError(t.err, t.end, t.end)}

Remaining == SubSeq(src, lpos + 1, Len(src))
Offset(n) == ByteLen(SubSeq(src, 1, n))

Sources == UNION {[1..n -> Chars] : n \in 0..MaxSrcLen}

\* lexer.rs:35-36
LexInit ==
    /\ src \in Sources
    /\ lpos = 0
    /\ tokens = <<>>
    /\ lphase = "lex"

\* lexer.rs:38, one iteration of many0(Token::lex); many0 fails on a token
\* that consumes nothing, and lex panics on that failure
LexToken ==
    /\ lphase = "lex"
    /\ TokenLex(Remaining).ok
    /\ IF TokenLex(Remaining).n = 0
       THEN lphase' = "failed" /\ UNCHANGED <<lpos, tokens>>
       ELSE /\ lpos' = lpos + TokenLex(Remaining).n
            /\ tokens' = Append(tokens,
                   Token(TokenLex(Remaining).type, Offset(lpos),
                         Offset(lpos + TokenLex(Remaining).n), TokenLex(Remaining).err))
            /\ UNCHANGED lphase
    /\ UNCHANGED src

\* lexer.rs:38-40 and 224-231: Token::lex fails, many0 stops, Eof::lex runs
LexEof ==
    /\ lphase = "lex"
    /\ ~TokenLex(Remaining).ok
    /\ IF Remaining = <<>>
       THEN /\ tokens' = Append(tokens, Token("Eof", Offset(lpos), Offset(lpos), ""))
            /\ lphase' = "done"
       ELSE lphase' = "failed" /\ UNCHANGED tokens
    /\ UNCHANGED <<src, lpos>>

(***************************************************************************)
(* parser.rs: a parser takes the token kinds, and the position and error   *)
(* buffer of the TokenStream; it returns the stream it leaves, or fails    *)
(* with the stream of its error                                            *)
(***************************************************************************)
MaxTokens == 3

POk(pos, errs) == [ok |-> TRUE, pos |-> pos, errs |-> errs]
PErr(pos, errs) == [ok |-> FALSE, pos |-> pos, errs |-> errs]
Stream(pos, errs) == POk(pos, errs)

\* token.rs:140-142 first_token, by kind
Kind(toks, pos) == IF pos < Len(toks) THEN toks[pos + 1] ELSE "None"

\* parser.rs:494-534: one token of one of the kinds
token(kinds, toks, st) ==
    Only({IF Kind(toks, s.pos) \in kinds THEN POk(s.pos + 1, s.errs)
          ELSE PErr(s.pos, s.errs) : s \in {st}})

\* the diagnostic is recorded twice
expect_twice(r, message) ==
    Only({IF x.ok THEN x
          ELSE POk(x.pos,
                   x.errs \o <<Error(message, IF x.pos > 0 THEN x.pos - 1 ELSE 0),
                               Error(message, IF x.pos > 0 THEN x.pos - 1 ELSE 0)>>)
          : x \in {r}})

\* the error is put on the token after the failure
expect_next(r, message) ==
    Only({IF x.ok THEN x
          ELSE POk(x.pos, Append(x.errs, Error(message, x.pos + 1)))
          : x \in {r}})

\* parser/utility.rs:8-27: r is the result of the expected parser; the range
\* of the error is error_pos..error_pos
expect(r, message) ==
    Only({IF x.ok THEN x
          ELSE POk(x.pos,
                   Append(x.errs, Error(message, IF x.pos > 0 THEN x.pos - 1 ELSE 0)))
          : x \in {r}})

\* nom opt: a failure leaves the stream as it was
opt(r, st) == Only({IF x.ok THEN x ELSE POk(st.pos, st.errs) : x \in {r}})

\* nom alt: the first alternative that succeeds, else the error of the last
\* (parser/error.rs: append and or keep the later error)
alt(r, other) == Only({IF x.ok THEN x ELSE other : x \in {r}})

\* parser.rs:569-610
LookaheadGlobal == {"Use", "Def", "Let", "LCurly", "LBracket", "Ident", "Eof"}
LookaheadUseKind == {"Star", "As", "RCurly"} \cup LookaheadGlobal
LookaheadUseItem == LookaheadUseKind
LookaheadExpr == {"Eq", "RCurly", "RBracket", "As"} \cup LookaheadGlobal
LookaheadStructField == {"Pipe"} \cup LookaheadExpr

\* the positions after pos at which the pattern matches
Matches(pattern, toks, pos) ==
    {q \in (pos + 1)..Len(toks) : Kind(toks, q) \in pattern}

ignore_until_nonconsuming(pattern, toks, st) ==
    Only({IF Matches(pattern, toks, s.pos - 1) # {}
          THEN POk(FirstIn(Matches(pattern, toks, s.pos - 1)), s.errs)
          ELSE PErr(Len(toks), s.errs) : s \in {st}})

\* parser/utility.rs:29-56
ignore_until(pattern, toks, st) ==
    Only({IF Kind(toks, s.pos) \in pattern THEN PErr(s.pos, s.errs)
          ELSE IF Matches(pattern, toks, s.pos) # {}
          THEN POk(FirstIn(Matches(pattern, toks, s.pos)), s.errs)
          ELSE PErr(Len(toks), s.errs) : s \in {st}})

PrimitiveKinds == {"String", "Char", "Number", "True", "False", "Null"}

\* parser.rs:386-405  Alias and AliasName
AliasParse(toks, st) ==
    Only({IF ~as.ok THEN as ELSE opt(token({"String", "Ident"}, toks, as), as)
          : as \in {token({"As"}, toks, st)}})

\* parser.rs:358-372
InnerNameParse(toks, st) ==
    Only({IF ~colons.ok THEN colons
          ELSE expect(token({"Ident"}, toks, colons), "ExpectedIdent")
          : colons \in {token({"DoubleColon"}, toks, st)}})

RECURSIVE ExprParse(_, _), UnionAlternativeParse(_, _), SingleParse(_, _),
          StructParse(_, _), StructFieldParse(_, _), ListParse(_, _),
          NamedParse(_, _), parse_type_annotation(_, _), FieldValue(_, _),
          UseBodyParse(_, _), UseKindParse(_, _), UseItemsParse(_, _),
          UseItemParse(_, _), GlobalParse(_, _),
          Repeated(_, _, _), many0(_, _, _), Closing(_, _, _, _)

\* the parsers that are repeated with many0
Repeated(which, toks, st) ==
    CASE which = "Global" -> GlobalParse(toks, st)
      [] which = "UnionAlternative" -> UnionAlternativeParse(toks, st)
      [] which = "StructField" ->
            \* parser.rs:264-267 and 311-317
            alt(StructFieldParse(toks, st), ignore_until(LookaheadStructField, toks, st))
      [] which = "Expr" -> ExprParse(toks, st)
      [] which = "InnerName" -> InnerNameParse(toks, st)
      [] which = "UseItem" ->
            \* parser.rs:116-119 and 153-159
            alt(UseItemParse(toks, st), ignore_until(LookaheadUseItem, toks, st))

\* nom many0: stops at the first failure, and fails itself when an
\* iteration succeeds without consuming a token
many0(which, toks, st) ==
    Only({Only({IF ~r.ok THEN POk(s.pos, s.errs)
                ELSE IF r.pos = s.pos THEN PErr(s.pos, s.errs)
                ELSE many0(which, toks, r)
                : r \in {Repeated(which, toks, s)}})
          : s \in {st}})

\* the closing token that is expected after a repetition; the repetition's
\* own failure is the failure of the whole
Closing(kind, message, toks, items) ==
    Only({IF ~i.ok THEN i ELSE expect(token({kind}, toks, i), message)
          : i \in {items}})

\* parser.rs:207-234
ExprParse(toks, st) ==
    Only({IF single.ok THEN many0("UnionAlternative", toks, single)
          ELSE ignore_until(LookaheadExpr, toks, single)
          : single \in {SingleParse(toks, st)}})

\* parser.rs:236-246
UnionAlternativeParse(toks, st) ==
    Only({IF ~pipe.ok THEN pipe
          ELSE expect(SingleParse(toks, pipe), "ExpectedSingle")
          : pipe \in {token({"Pipe"}, toks, st)}})

\* parser.rs:248-257 and 374-384
SingleParse(toks, st) ==
    Only({alt(StructParse(toks, s),
              alt(ListParse(toks, s),
                  alt(NamedParse(toks, s), token(PrimitiveKinds, toks, s))))
          : s \in {st}})

\* parser.rs:259-278
StructParse(toks, st) ==
    Only({IF ~lcurly.ok THEN lcurly
          ELSE Closing("RCurly", "MissingClosingCurly", toks,
                       many0("StructField", toks, lcurly))
          : lcurly \in {token({"LCurly"}, toks, st)}})

\* parser.rs:447-458
parse_type_annotation(toks, st) ==
    Only({Only({IF ~colon.ok THEN POk(s.pos, s.errs)
                ELSE expect(ExprParse(toks, colon), "ExpectedExpr")
                : colon \in {token({"Colon"}, toks, s)}})
          : s \in {st}})

\* parser.rs:286-295: the optional value of a field
FieldValue(toks, st) ==
    Only({Only({IF ~eq.ok THEN POk(s.pos, s.errs)
                ELSE expect(ExprParse(toks, eq), "ExpectedExpr")
                : eq \in {token({"Eq"}, toks, s)}})
          : s \in {st}})

\* parser.rs:280-309
StructFieldParse(toks, st) ==
    Only({IF ~name.ok THEN name
          ELSE Only({opt(AliasParse(toks, value), value)
                     : value \in {FieldValue(toks, parse_type_annotation(toks, name))}})
          : name \in {token({"Ident"}, toks, st)}})

\* parser.rs:319-335
ListParse(toks, st) ==
    Only({IF ~lbracket.ok THEN lbracket
          ELSE Closing("RBracket", "MissingClosingBracket", toks,
                       many0("Expr", toks, lbracket))
          : lbracket \in {token({"LBracket"}, toks, st)}})

\* parser.rs:337-356
NamedParse(toks, st) ==
    Only({IF ~name.ok THEN name
          ELSE Only({IF ~inner.ok THEN inner
                     ELSE opt(alt(StructParse(toks, inner), ListParse(toks, inner)),
                              inner)
                     : inner \in {many0("InnerName", toks, name)}})
          : name \in {token({"Ident"}, toks, st)}})

\* parser.rs:82-96
UseBodyParse(toks, st) ==
    Only({IF ~colons.ok THEN colons
          ELSE expect(UseKindParse(toks, colons), "ExpectedUseKind")
          : colons \in {token({"DoubleColon"}, toks, st)}})

\* parser.rs:98-109
UseKindParse(toks, st) ==
    Only({alt(token({"Star"}, toks, s),
              alt(UseItemParse(toks, s),
                  alt(UseItemsParse(toks, s),
                      ignore_until(LookaheadUseKind, toks, s))))
          : s \in {st}})

\* parser.rs:111-133
UseItemsParse(toks, st) ==
    Only({IF ~lcurly.ok THEN lcurly
          ELSE Closing("RCurly", "MissingClosingCurly", toks,
                       many0("UseItem", toks, lcurly))
          : lcurly \in {token({"LCurly"}, toks, st)}})

\* parser.rs:135-151
UseItemParse(toks, st) ==
    Only({IF ~name.ok THEN name
          ELSE Only({opt(AliasParse(toks, body), body)
                     : body \in {opt(UseBodyParse(toks, name), name)}})
          : name \in {token({"Ident"}, toks, st)}})

\* parser.rs:64-80
UseParse(toks, st) ==
    Only({IF ~use.ok THEN use
          ELSE Only({opt(UseBodyParse(toks, name), name)
                     : name \in {expect(token({"Ident"}, toks, use), "ExpectedIdent")}})
          : use \in {token({"Use"}, toks, st)}})

\* parser.rs:161-205  Def and Let: keyword is "Def" or "Let"
BindingParse(keyword, toks, st) ==
    Only({IF ~kw.ok THEN kw
          ELSE expect(ExprParse(toks,
                          expect(token({"Eq"}, toks,
                                     parse_type_annotation(toks,
                                         expect(token({"Ident"}, toks, kw),
                                                "ExpectedIdent"))),
                                 "ExpectedEQ")),
                      "ExpectedExpr")
          : kw \in {token({keyword}, toks, st)}})

\* parser.rs:50-62
GlobalParse(toks, st) ==
    Only({alt(UseParse(toks, s),
              alt(BindingParse("Def", toks, s),
                  alt(BindingParse("Let", toks, s),
                      alt(ExprParse(toks, s),
                          ignore_until(LookaheadGlobal, toks, s)))))
          : s \in {st}})

\* parser/utility.rs:58-82: info gives a node the range start..end of the
\* stream offsets before and after its parser; the spans of the nodes a
\* parser can build from any offset of the token vector
InfoParsers ==
    {"Global", "Use", "UseItem", "UseItems", "Def", "Let", "Expr", "Single",
     "Struct", "StructField", "List", "Named", "Token"}
InfoParse(which, toks, st) ==
    CASE which = "Global" -> GlobalParse(toks, st)
      [] which = "Use" -> UseParse(toks, st)
      [] which = "UseItem" -> UseItemParse(toks, st)
      [] which = "UseItems" -> UseItemsParse(toks, st)
      [] which = "Def" -> BindingParse("Def", toks, st)
      [] which = "Let" -> BindingParse("Let", toks, st)
      [] which = "Expr" -> ExprParse(toks, st)
      [] which = "Single" -> SingleParse(toks, st)
      [] which = "Struct" -> StructParse(toks, st)
      [] which = "StructField" -> StructFieldParse(toks, st)
      [] which = "List" -> ListParse(toks, st)
      [] which = "Named" -> NamedParse(toks, st)
      [] which = "Token" -> token(Range(toks), toks, st)
InfoSpans(toks) ==
    {<<q, InfoParse(which, toks, Stream(q, <<>>)).pos>> :
        <<which, q>> \in {<<w, o>> \in InfoParsers \X (0..Len(toks)) :
                             InfoParse(w, toks, Stream(o, <<>>)).ok}}

\* the token kinds the vectors are drawn from; Whitespace stands for every
\* kind no parser and no lookahead accepts
ParserKinds ==
    {"Use", "Def", "As", "Ident", "Eq", "Colon", "DoubleColon", "Star", "Pipe",
     "LCurly", "RCurly", "LBracket", "RBracket", "String", "Whitespace"}

VectorsOver(K, n) == UNION {[1..m -> K] : m \in 0..n}

\* lexer.rs:35-41: the lexer emits tokens and then exactly one Eof
LexShaped(toks) ==
    /\ Len(toks) >= 1
    /\ toks[Len(toks)] = "Eof"
    /\ \A i \in 1..(Len(toks) - 1) : toks[i] # "Eof"

TokenVectors ==
    VectorsOver(ParserKinds \cup {"Eof"}, MaxTokens)
        \cup {Append(v, "Eof") : v \in VectorsOver(ParserKinds, MaxTokens)}

\* parser.rs:27-28: parse is called with a token vector
ParseCall ==
    /\ pphase = "idle"
    /\ ptoks' \in TokenVectors
    /\ ppos' = 0
    /\ perrs' = <<>>
    /\ pphase' = "parse"

\* parser.rs:44: one iteration of many0(Global::parse); an iteration that
\* consumes nothing is many0's error, on which parse panics (parser.rs:28)
ParseGlobalStep(r) ==
    /\ r.ok
    /\ IF r.pos = ppos
       THEN pphase' = "panic" /\ UNCHANGED <<ppos, perrs>>
       ELSE ppos' = r.pos /\ perrs' = r.errs /\ UNCHANGED pphase
    /\ UNCHANGED ptoks

ParseGlobal ==
    /\ pphase = "parse"
    /\ \E r \in {GlobalParse(ptoks, Stream(ppos, perrs))} : ParseGlobalStep(r)

\* parser.rs:28-34 and 44: many0 has stopped; token::eof, then the check
\* for tokens after Eof; parse panics when token::eof fails
ParseEof ==
    /\ pphase = "parse"
    /\ \E r \in {GlobalParse(ptoks, Stream(ppos, perrs))} : ~r.ok
    /\ IF Kind(ptoks, ppos) = "Eof"
       THEN /\ ppos' = ppos + 1
            /\ perrs' = IF ppos + 1 < Len(ptoks)
                        THEN Append(perrs, Error("TokensAfterEof", ppos + 1))
                        ELSE perrs
            /\ pphase' = "done"
       ELSE pphase' = "panic" /\ UNCHANGED <<ppos, perrs>>
    /\ UNCHANGED ptoks

ValuesIdle ==
    /\ globals = <<>> /\ rules = <<>> /\ rule_table = EmptyTable /\ inits = <<>>
    /\ lets = <<>> /\ phase = "idle" /\ cursor = 1 /\ stack = <<>>
    /\ evaluated = <<>> /\ errors = <<>> /\ result = NoResult /\ first = NoResult
    /\ uses_result = NoResult /\ namespace_result = NoResult
    /\ types_result = NoResult
    /\ immutable_lets = <<>>

LexIdle == src = <<>> /\ lpos = 0 /\ tokens = <<>> /\ lphase = "idle"
ParseIdle == ptoks = <<>> /\ ppos = 0 /\ perrs = <<>> /\ pphase = "idle"

Init == ValuesInit /\ LexIdle /\ ParseIdle

Next ==
    \/ AnalyzeGlobal /\ UNCHANGED <<lexVars, parseVars>>
    \/ StartEvaluate /\ UNCHANGED <<lexVars, parseVars>>
    \/ ForRule /\ UNCHANGED <<lexVars, parseVars>>
    \/ PopRule /\ UNCHANGED <<lexVars, parseVars>>
    \/ PostChecks /\ UNCHANGED <<lexVars, parseVars>>
    \/ TypesOverflow /\ UNCHANGED <<lexVars, parseVars>>
    \/ AnalyzeAgain /\ UNCHANGED <<lexVars, parseVars>>

Spec == Init /\ [][Next]_vars

\* evaluate is a sequential loop: once started it keeps running
EvaluateStep ==
    (ForRule \/ PopRule \/ PostChecks \/ TypesOverflow) /\ UNCHANGED <<lexVars, parseVars>>

NextCyclic ==
    \/ AnalyzeCyclic /\ UNCHANGED <<lexVars, parseVars>>
    \/ StartEvaluate /\ UNCHANGED <<lexVars, parseVars>>
    \/ ForRule /\ UNCHANGED <<lexVars, parseVars>>
    \/ PopRule /\ UNCHANGED <<lexVars, parseVars>>
    \/ PostChecks /\ UNCHANGED <<lexVars, parseVars>>
    \/ TypesOverflow /\ UNCHANGED <<lexVars, parseVars>>
    \/ AnalyzeAgain /\ UNCHANGED <<lexVars, parseVars>>

CyclicSpec == Init /\ [][NextCyclic]_vars /\ WF_vars(EvaluateStep)

NextDefaults ==
    \/ AnalyzeDefaults /\ UNCHANGED <<lexVars, parseVars>>
    \/ StartEvaluate /\ UNCHANGED <<lexVars, parseVars>>
    \/ ForRule /\ UNCHANGED <<lexVars, parseVars>>
    \/ PopRule /\ UNCHANGED <<lexVars, parseVars>>
    \/ PostChecks /\ UNCHANGED <<lexVars, parseVars>>
    \/ AnalyzeAgain /\ UNCHANGED <<lexVars, parseVars>>

DefaultsSpec == Init /\ [][NextDefaults]_vars

NextSemantics ==
    \/ AnalyzeSemantics /\ UNCHANGED <<lexVars, parseVars>>
    \/ StartEvaluate /\ UNCHANGED <<lexVars, parseVars>>
    \/ ForRule /\ UNCHANGED <<lexVars, parseVars>>
    \/ PopRule /\ UNCHANGED <<lexVars, parseVars>>
    \/ PostChecks /\ UNCHANGED <<lexVars, parseVars>>
    \/ AnalyzeAgain /\ UNCHANGED <<lexVars, parseVars>>

SemanticsSpec == Init /\ [][NextSemantics]_vars

NextTypes ==
    \/ AnalyzeTypes /\ UNCHANGED <<lexVars, parseVars>>
    \/ StartEvaluate /\ UNCHANGED <<lexVars, parseVars>>
    \/ ForRule /\ UNCHANGED <<lexVars, parseVars>>
    \/ PopRule /\ UNCHANGED <<lexVars, parseVars>>
    \/ PostChecks /\ UNCHANGED <<lexVars, parseVars>>
    \/ TypesOverflow /\ UNCHANGED <<lexVars, parseVars>>
    \/ AnalyzeAgain /\ UNCHANGED <<lexVars, parseVars>>

TypesSpec == Init /\ [][NextTypes]_vars

NextFields ==
    \/ AnalyzeFields /\ UNCHANGED <<lexVars, parseVars>>
    \/ StartEvaluate /\ UNCHANGED <<lexVars, parseVars>>
    \/ ForRule /\ UNCHANGED <<lexVars, parseVars>>
    \/ PopRule /\ UNCHANGED <<lexVars, parseVars>>
    \/ PostChecks /\ UNCHANGED <<lexVars, parseVars>>
    \/ AnalyzeAgain /\ UNCHANGED <<lexVars, parseVars>>

FieldsSpec == Init /\ [][NextFields]_vars

NextAliases ==
    \/ AnalyzeAliases /\ UNCHANGED <<lexVars, parseVars>>
    \/ StartEvaluate /\ UNCHANGED <<lexVars, parseVars>>
    \/ ForRule /\ UNCHANGED <<lexVars, parseVars>>
    \/ PopRule /\ UNCHANGED <<lexVars, parseVars>>
    \/ PostChecks /\ UNCHANGED <<lexVars, parseVars>>
    \/ AnalyzeAgain /\ UNCHANGED <<lexVars, parseVars>>

AliasSpec == Init /\ [][NextAliases]_vars

NextImports ==
    \/ AnalyzeImports /\ UNCHANGED <<lexVars, parseVars>>
    \/ StartEvaluate /\ UNCHANGED <<lexVars, parseVars>>
    \/ ForRule /\ UNCHANGED <<lexVars, parseVars>>
    \/ PopRule /\ UNCHANGED <<lexVars, parseVars>>
    \/ PostChecks /\ UNCHANGED <<lexVars, parseVars>>
    \/ AnalyzeAgain /\ UNCHANGED <<lexVars, parseVars>>

ImportsSpec == Init /\ [][NextImports]_vars

InitLex == ValuesIdle /\ LexInit /\ ParseIdle

NextLex ==
    \/ LexToken /\ UNCHANGED <<valueVars, parseVars>>
    \/ LexEof /\ UNCHANGED <<valueVars, parseVars>>

LexSpec == InitLex /\ [][NextLex]_vars

InitParse == ValuesIdle /\ LexIdle /\ ParseIdle

\* parse is a sequential function: once called it keeps running
ParseStep == (ParseGlobal \/ ParseEof) /\ UNCHANGED <<valueVars, lexVars>>

NextParse ==
    \/ ParseCall /\ UNCHANGED <<valueVars, lexVars>>
    \/ ParseGlobal /\ UNCHANGED <<valueVars, lexVars>>
    \/ ParseEof /\ UNCHANGED <<valueVars, lexVars>>

ParseSpec == InitParse /\ [][NextParse]_vars /\ WF_vars(ParseStep)

\* sources long enough to hold a lexical and a parser error
LongSources ==
    {<<"a", ":", ":", "1", ".">>, <<"a", ":", ":", "U+00E9">>, <<"'", "a", ":", ":">>}

\* the tokens of lex are the input of parse (semantics/tests.rs:682-685)
ParseLexed ==
    /\ lphase = "done"
    /\ pphase = "idle"
    /\ ptoks' = [i \in 1..Len(tokens) |-> tokens[i].type]
    /\ ppos' = 0
    /\ perrs' = <<>>
    /\ pphase' = "parse"

\* the front end: either a source is lexed and its tokens are parsed, or
\* parse is called with a token vector of its own
InitRanges ==
    /\ ValuesIdle /\ ParseIdle
    /\ \/ LexIdle
       \/ src \in Sources \cup LongSources /\ lpos = 0 /\ tokens = <<>> /\ lphase = "lex"

NextRanges ==
    \/ LexToken /\ UNCHANGED <<valueVars, parseVars>>
    \/ LexEof /\ UNCHANGED <<valueVars, parseVars>>
    \/ ParseLexed /\ UNCHANGED <<valueVars, lexVars>>
    \/ lphase = "idle" /\ ParseCall /\ UNCHANGED <<valueVars, lexVars>>
    \/ ParseGlobal /\ UNCHANGED <<valueVars, lexVars>>
    \/ ParseEof /\ UNCHANGED <<valueVars, lexVars>>

RangesSpec == InitRanges /\ [][NextRanges]_vars

(***************************************************************************)
(* The rule graph: child indices and Ref lookups through the rule table    *)
(***************************************************************************)
\* values.rs:176-250
Children(rule, table) ==
    CASE rule.d.k \in {"Union", "List"} -> Range(rule.d.idx)
      [] rule.d.k = "Struct" -> {rule.d.map[n] : n \in FieldNames} \ {0}
      [] rule.d.k = "Composed" -> {rule.d.own, rule.d.super}
      [] rule.d.k = "Ref" -> {TableGet(table, rule.d.name)} \ {0}
      [] OTHER -> {}

ReachStep(frontier, seen, allowed) ==
    ((UNION {Children(rules[i], rule_table) : i \in frontier}) \cap allowed) \ seen

\* the rules reached from the frontier in one or more steps inside `allowed`
RECURSIVE ReachIn(_, _, _)
ReachIn(frontier, seen, allowed) ==
    IF ReachStep(frontier, seen, allowed) = {} THEN seen
    ELSE ReachIn(ReachStep(frontier, seen, allowed),
                 seen \cup ReachStep(frontier, seen, allowed), allowed)

RuleIndices == 1..Len(rules)
OnCycle(i) == i \in ReachIn({i}, {}, RuleIndices)
AllEvaluated == \A i \in RuleIndices : contains_key(evaluated, i)
NotUnknown == {i \in RuleIndices : evaluated[i] # Unknown}

\* C1: evaluate terminates: once started, the work stack eventually empties
\* with every rule index bound in the evaluated map, and a binding, once
\* made, is never replaced (each rule gets exactly one entry); this holds
\* also for programs whose rule graph has reference cycles.
C1_EvaluateTerminates ==
    /\ [][phase = "eval" =>
            \A i \in RuleIndices :
                contains_key(evaluated, i) => evaluated'[i] = evaluated[i]]_vars
    /\ (phase = "eval") ~> (phase \in {"done", "overflow"} /\ stack = <<>> /\ AllEvaluated)

C1_Witness == phase = "done" /\ AllEvaluated /\ \E i \in RuleIndices : OnCycle(i)

C3_AnalyzePure == (phase = "done" /\ first # NoResult) => result = first

InitGlobals == {g \in 1..Len(globals) : globals[g].g = "init"}
CountErrors(errs, message) ==
    Cardinality({k \in 1..Len(errs) : errs[k].message = message})

\* C7 as stated: the length of the returned inits equals the number of Init
\* globals minus the number of MultipleInits errors.
C7_InitsMinusMultiple ==
    phase = "done" =>
        Len(result.inits) =
            Cardinality(InitGlobals) - CountErrors(result.errors, "MultipleInits")

\* C7 amended: the returned inits hold one value per Init global, and one
\* MultipleInits error is reported for every Init global after the first.
C7_InitCount ==
    phase = "done" =>
        /\ Len(result.inits) = Cardinality(InitGlobals)
        /\ CountErrors(result.errors, "MultipleInits") =
               IF InitGlobals = {} THEN 0 ELSE Cardinality(InitGlobals) - 1

C7_Witness == phase = "done" /\ Cardinality(InitGlobals) >= 2

Uninitialized == {"UninitializedLet", "UninitializedDefault", "UninitializedInit"}

\* C8: for every def or let whose name the returned symbol table maps to a
\* fully known value, no UninitializedLet, UninitializedDefault or
\* UninitializedInit error has its range inside that global's span, also
\* when several globals bind the same name.
C8_KnownValueLaw ==
    phase = "done" =>
        \A g \in 1..Len(globals) :
            (/\ globals[g].g \in {"def", "let"}
             /\ globals[g].name \in DOMAIN result.symbol_table
             /\ result.symbol_table[globals[g].name] # Absent
             /\ is_known(result.symbol_table[globals[g].name]))
            => ~ \E k \in 1..Len(result.errors) :
                    /\ result.errors[k].message \in Uninitialized
                    /\ Inside(result.errors[k].range, Info(g, <<>>))

(***************************************************************************)
(* Union sites: a let, a struct field or an init whose value is a Union    *)
(***************************************************************************)
Site(ranges, expected) == [ranges |-> ranges, expected |-> expected]

\* the fields with a Union value of a struct expression at path p of global g
FieldSites(g, e, p) ==
    IF e.k # "struct" THEN {}
    ELSE {Site({Info(g, p \o <<i>>), Info(g, p \o <<i, 2>>)}, "UninitializedDefault") :
             i \in {j \in 1..Len(e.fields) : e.fields[j].expr.k = "union"}}

UnionSites ==
    UNION {
        (IF globals[g].g = "let" /\ globals[g].expr.k = "union"
         THEN {Site({Info(g, <<>>), Info(g, <<2>>)}, "UninitializedLet")} ELSE {})
        \cup (IF globals[g].g = "init" /\ globals[g].expr.k = "union"
              THEN {Site({Info(g, <<>>)}, "UninitializedInit")} ELSE {})
        \cup FieldSites(g, globals[g].expr,
                        IF globals[g].g = "init" THEN <<>> ELSE <<2>>)
        : g \in 1..Len(globals)}

UnionMessages == Uninitialized \cup {"UnionInInit"}

\* the errors about a union in value position that are reported at the site
SiteErrors(site) ==
    {k \in 1..Len(result.errors) :
        /\ result.errors[k].message \in UnionMessages
        /\ result.errors[k].range \in site.ranges}

\* C9: for each let, struct field or init whose value is a Union, the error
\* list of semantics::analyze holds exactly one error for the site, and it
\* is UninitializedLet, UninitializedDefault or UninitializedInit.
C9_OneErrorPerUnionSite ==
    phase = "done" =>
        \A site \in UnionSites :
            /\ Cardinality(SiteErrors(site)) = 1
            /\ \A k \in SiteErrors(site) : result.errors[k].message = site.expected

\* a value contains Unknown: it is Unknown, or an item or field of it does
RECURSIVE ContainsUnknown(_)
ContainsUnknown(v) ==
    \/ v.t = "Unknown"
    \/ v.t = "List" /\ \E i \in 1..Len(v.items) : ContainsUnknown(v.items[i])
    \/ v.t = "Struct" /\ \E n \in FieldNames :
            v.fields[n] # Absent /\ ContainsUnknown(v.fields[n])

DefaultRules == {i \in RuleIndices : rules[i].is_default /\ ContainsUnknown(evaluated[i])}
UnknownLets == {j \in 1..Len(lets) : ContainsUnknown(evaluated[lets[j].idx])}
ErrorsOf(message) == {k \in 1..Len(errors) : errors[k].message = message}

\* C10: after evaluation, values::analyze reports UninitializedDefault for a
\* rule iff the rule is a default whose value contains Unknown, and
\* UninitializedLet for a let iff its value contains Unknown; each is
\* reported once, defaults in rule order, then lets in source order.
C10_DefaultAndLetErrors ==
    phase = "done" =>
        /\ \E f \in [ErrorsOf("UninitializedDefault") -> DefaultRules] :
              /\ \A i \in DefaultRules : \E k \in DOMAIN f : f[k] = i
              /\ \A k \in DOMAIN f : errors[k].range = rules[f[k]].info
              /\ \A k, m \in DOMAIN f : k < m => f[k] < f[m]
        /\ Cardinality(ErrorsOf("UninitializedDefault")) = Cardinality(DefaultRules)
        /\ \E f \in [ErrorsOf("UninitializedLet") -> UnknownLets] :
              /\ \A j \in UnknownLets : \E k \in DOMAIN f : f[k] = j
              /\ \A k \in DOMAIN f : errors[k].range = Info(lets[f[k]].g, <<>>)
              /\ \A k, m \in DOMAIN f : k < m => f[k] < f[m]
        /\ Cardinality(ErrorsOf("UninitializedLet")) = Cardinality(UnknownLets)
        /\ \A k \in ErrorsOf("UninitializedDefault"), m \in ErrorsOf("UninitializedLet") :
              k < m

C10_Witness ==
    /\ phase = "done"
    /\ Cardinality(ErrorsOf("UninitializedDefault")) >= 2
    /\ ErrorsOf("UninitializedLet") # {}

\* C4: lex never fails, and the tokens it returns end with exactly one Eof
\* token whose range is |s|..|s|, the first token starts at offset 0, every
\* token starts where the previous one ends, and every token other than Eof
\* has a non-empty range.
C4_TokensCoverSource ==
    /\ lphase # "failed"
    /\ lphase = "done" =>
        /\ tokens # <<>>
        /\ tokens[Len(tokens)] = Token("Eof", ByteLen(src), ByteLen(src), "")
        /\ \A i \in 1..(Len(tokens) - 1) :
              tokens[i].type # "Eof" /\ tokens[i].start < tokens[i].end
        /\ tokens[1].start = 0
        /\ \A i \in 2..Len(tokens) : tokens[i].start = tokens[i - 1].end

C4_Witness ==
    /\ lphase = "done"
    /\ Len(tokens) >= 3
    /\ ByteLen(src) > Len(src)
    /\ \E i \in 1..Len(tokens) : tokens[i].type = "Unknown" /\ tokens[i].end - tokens[i].start = 2

(***************************************************************************)
(* Parser claims                                                           *)
(***************************************************************************)
RepeatedParsers ==
    {"Global", "UnionAlternative", "StructField", "Expr", "InnerName", "UseItem"}

Lookaheads ==
    {LookaheadGlobal, LookaheadUseKind, LookaheadUseItem, LookaheadExpr,
     LookaheadStructField}

\* every parser under many0, and every ignore_until, that succeeds at a
\* position of the vector leaves the stream strictly after that position
RepetitionsConsume ==
    \A p \in 0..Len(ptoks) :
        /\ \A which \in RepeatedParsers :
               Repeated(which, ptoks, Stream(p, <<>>)).ok
                   => Repeated(which, ptoks, Stream(p, <<>>)).pos > p
        /\ \A pattern \in Lookaheads :
               ignore_until(pattern, ptoks, Stream(p, <<>>)).ok
                   => ignore_until(pattern, ptoks, Stream(p, <<>>)).pos > p

\* C5: on a vector shaped as the lexer's output (tokens, then one Eof) the
\* parser never panics, every repetition and every ignore_until consumes at
\* least one token when it succeeds, the parse finishes, and when it has
\* finished the final Eof is the last token matched and nothing is left
C5_ParseOfLexTerminates ==
    /\ [](LexShaped(ptoks) =>
            /\ pphase # "panic"
            /\ RepetitionsConsume
            /\ ppos <= Len(ptoks)
            /\ pphase = "done" =>
                   /\ ppos = Len(ptoks)
                   /\ ptoks[ppos] = "Eof"
                   /\ \A i \in 1..Len(perrs) : perrs[i].message # "TokensAfterEof")
    /\ (LexShaped(ptoks) /\ pphase = "parse") ~> (pphase = "done")

\* a lexer-shaped vector of the full length whose parse has finished after
\* an ignore_until recovery skipped tokens and an expected token was missed
C5_Witness ==
    /\ LexShaped(ptoks)
    /\ Len(ptoks) = MaxTokens + 1
    /\ pphase = "done"
    /\ ppos = Len(ptoks)
    /\ Len(perrs) >= 1
    /\ GlobalParse(ptoks, Stream(0, <<>>))
           = ignore_until(LookaheadGlobal, ptoks, Stream(0, <<>>))
    /\ GlobalParse(ptoks, Stream(0, <<>>)).ok
    /\ GlobalParse(ptoks, Stream(0, <<>>)).pos >= 2

\* C6: parse never panics, whatever the token vector
C6_ParseNeverPanics == pphase # "panic"

(***************************************************************************)
(* Applied names                                                           *)
(***************************************************************************)
Keys(v) == {n \in FieldNames : v.fields[n] # Absent}

\* res is own with the fields of sup merged into it
RECURSIVE Merged(_, _, _)
Merged(res, own, sup) ==
    IF own.t = "Struct" /\ sup.t = "Struct"
    THEN /\ res.t = "Struct"
         /\ Keys(res) = Keys(own) \cup Keys(sup)
         /\ \A n \in Keys(sup) \ Keys(own) : res.fields[n] = sup.fields[n]
         /\ \A n \in Keys(own) \ Keys(sup) : res.fields[n] = own.fields[n]
         /\ \A n \in Keys(own) \cap Keys(sup) :
               IF own.fields[n].t = "Struct" /\ sup.fields[n].t = "Struct"
               THEN Merged(res.fields[n], own.fields[n], sup.fields[n])
               ELSE res.fields[n] = own.fields[n]
    ELSE res = own

ComposedRules == {i \in RuleIndices : rules[i].d.k = "Composed"}

\* C11 as stated: the value of an applied name `Name { ... }` is the literal's value
\* with the fields of the named binding's value merged into it: the keys are
\* the union of both key sets, a key only in the named value takes that
\* value, a key in both keeps the literal's value unless both are structs,
\* where the merge recurses, and if either side is not a struct the
\* literal's value is kept unchanged.
C11_AppliedNameMerges ==
    phase = "done" =>
        \A i \in ComposedRules :
            Merged(evaluated[i], evaluated[rules[i].d.own],
                   evaluated[rules[i].d.super])

\* C11 amended: the value of an applied name is the literal's value with the
\* fields of the named binding's value merged into it as above, unless the
\* rule of the applied name is the one found on the stack a second time
\* during evaluation: then it lies on a reference cycle and is Unknown.
C11_MergesUnlessCycleBound ==
    phase = "done" =>
        \A i \in ComposedRules :
            \/ Merged(evaluated[i], evaluated[rules[i].d.own],
                      evaluated[rules[i].d.super])
            \/ OnCycle(i) /\ evaluated[i] = Unknown

\* a default is inherited at depth two while its sibling is overridden
C11_Witness ==
    /\ phase = "done"
    /\ \E i \in ComposedRules :
          /\ evaluated[i].t = "Struct"
          /\ evaluated[i].fields["g"] = NumberV("1")
          /\ evaluated[i].fields["f"].t = "Struct"
          /\ evaluated[i].fields["f"].fields["f"] = NumberV("2")
          /\ evaluated[i].fields["f"].fields["g"] = NumberV("1")

\* C12: the error list returned by semantics::analyze is the errors of the
\* use analysis, then those of the namespace analysis, then those of the
\* type analysis, then those of the value analysis, where each of the four
\* is the full result of that analysis on the program, whatever the earlier
\* analyses reported.
C12_ErrorsOrderedByPhase ==
    phase = "done" =>
        /\ uses_result \in UsesAnalyze(globals)
        /\ namespace_result = NamespaceAnalyze(uses_result.idents, globals)
        /\ types_result \in TypesAnalyze(globals)
        /\ result.errors = uses_result.errors \o namespace_result.errors
                              \o types_result.errors \o errors

C12_Witness ==
    /\ phase = "done"
    /\ uses_result.errors # <<>>
    /\ namespace_result.errors # <<>>
    /\ types_result.errors # <<>>
    /\ errors # <<>>

(***************************************************************************)
(* The terminal items of the use statements of a program, in source order: *)
(* local name, global path and position.                                   *)
(***************************************************************************)
Terminal(key, path, info) == [key |-> key, path |-> path, info |-> info]

RECURSIVE TerminalsOfItem(_, _, _), TerminalsOfItems(_, _, _, _)
TerminalsOfItem(item, path_stack, info) ==
    CASE item.body.k = "none" ->
            <<Terminal(identifier(item.name, item.alias),
                       Append(path_stack, item.name), info)>>
      [] item.body.k = "single" ->
            TerminalsOfItem(item.body.item, Append(path_stack, item.name),
                            Info(info.g, info.path \o <<1>>))
      [] item.body.k = "multiple" ->
            TerminalsOfItems(item.body.items, 1, Append(path_stack, item.name), info)
      [] OTHER -> <<>>

TerminalsOfItems(items, i, path_stack, info) ==
    IF i > Len(items) THEN <<>>
    ELSE TerminalsOfItem(items[i], path_stack, Info(info.g, info.path \o <<i>>))
         \o TerminalsOfItems(items, i + 1, path_stack, info)

TerminalsOfUse(u, gi) ==
    CASE u.g # "use" \/ u.name = "" -> <<>>
      [] u.body.k = "none" ->
            <<Terminal(identifier(u.name, u.alias), <<u.name>>, Info(gi, <<>>))>>
      [] u.body.k = "single" ->
            TerminalsOfItem(u.body.item, <<u.name>>, Info(gi, <<1>>))
      [] u.body.k = "multiple" ->
            TerminalsOfItems(u.body.items, 1, <<u.name>>, Info(gi, <<>>))
      [] OTHER -> <<>>

RECURSIVE Terminals(_, _)
Terminals(gs, gi) ==
    IF gi > Len(gs) THEN <<>>
    ELSE TerminalsOfUse(gs[gi], gi) \o Terminals(gs, gi + 1)

Named(errs, message, name) ==
    {j \in 1..Len(errs) :
        /\ errs[j].message = message
        /\ "name" \in DOMAIN errs[j]
        /\ errs[j].name = name}
Least(S) == CHOOSE i \in S : \A j \in S : i <= j

\* C13: uses::analyze maps every local name (the alias identifier if there
\* is one, else the item's own name) to the global path of the first
\* terminal item, in source order, that introduces it; for a name introduced
\* by n terminal items it reports n - 1 DuplicateUse(name) errors, each
\* pinned to a span that holds a later item of that name and not the first;
\* a name no item introduces is not in the table and not reported.
C13_FirstUseWins ==
    phase = "done" =>
        \A k \in UseKeys :
            LET T == Terminals(globals, 1)
                I == {i \in 1..Len(T) : T[i].key = k}
                E == Named(uses_result.errors, "DuplicateUse", k)
            IN IF I = {} THEN uses_result.idents[k] = NoPath /\ E = {}
               ELSE /\ uses_result.idents[k] = T[Least(I)].path
                    /\ Cardinality(E) = Cardinality(I) - 1
                    /\ \A j \in E :
                          /\ \E i \in I \ {Least(I)} :
                                Inside(T[i].info, uses_result.errors[j].range)
                          /\ ~Inside(T[Least(I)].info, uses_result.errors[j].range)

C13_Witness ==
    /\ phase = "done"
    /\ \E k \in UseKeys :
          Cardinality({i \in 1..Len(Terminals(globals, 1)) :
                          Terminals(globals, 1)[i].key = k}) >= 3
    /\ \E i \in 1..Len(Terminals(globals, 1)) :
          Terminals(globals, 1)[i].key
              # Terminals(globals, 1)[i].path[Len(Terminals(globals, 1)[i].path)]

\* the def and let globals that bind the name
BindersOf(name) ==
    {gi \in 1..Len(globals) : globals[gi].g \in {"def", "let"} /\ globals[gi].name = name}
BindingOf(gi) == IF globals[gi].g = "def" THEN "Def" ELSE "Let"
RangesOf(errs, E) == {errs[j].range : j \in E}

\* C14: namespace::analyze keeps every entry of the use table; a def or let
\* name is entered with the path root::name and its binding kind only if no
\* use and no earlier def or let has the name; every other binder of the
\* name is reported by exactly one Redeclaration(name) at its identifier and
\* changes neither the path nor the bindings map.
C14_FirstBinderWins ==
    phase = "done" =>
        /\ \A k \in UseKeys :
              uses_result.idents[k] # NoPath =>
                  namespace_result.namespace[k] = uses_result.idents[k]
        /\ \A n \in BinderNames :
              LET I == BindersOf(n)
                  E == Named(namespace_result.errors, "Redeclaration", n)
                  accepted == IF uses_result.idents[n] # NoPath \/ I = {} THEN {}
                              ELSE {Least(I)}
              IN /\ Cardinality(E) = Cardinality(I \ accepted)
                 /\ RangesOf(namespace_result.errors, E)
                        = {Info(gi, <<0>>) : gi \in I \ accepted}
                 /\ IF accepted = {}
                    THEN /\ namespace_result.bindings[n] = "None"
                         /\ namespace_result.namespace[n] = uses_result.idents[n]
                    ELSE /\ namespace_result.bindings[n] = BindingOf(Least(I))
                         /\ namespace_result.namespace[n] = <<"root", n>>

C14_Witness ==
    /\ phase = "done"
    /\ \E n \in BinderNames :
          /\ Cardinality(BindersOf(n)) = 2
          /\ \E gi, gj \in BindersOf(n) : BindingOf(gi) # BindingOf(gj)

C14_WitnessUse ==
    /\ phase = "done"
    /\ \E n \in BinderNames : uses_result.idents[n] # NoPath /\ BindersOf(n) # {}

(***************************************************************************)
(* Type checks on the rules of the analysed program                        *)
(***************************************************************************)
TypeRuleIndices == 1..Len(types_result.rules)
Extracted(i) == extract_type_description(types_result.rules, i, {})
ExtractedKind(i) ==
    IF Extracted(i) = 0 THEN "None" ELSE types_result.rules[Extracted(i)].d.k
Checked(e, a) == check_rules(types_result.rules, e, a, {})
Accepts(e, a) == Checked(e, a) = {<<>>}
\* the pairs of rules of the given kinds whose check returns
PairsOf(ek, ak) ==
    {p \in TypeRuleIndices \X TypeRuleIndices :
        /\ ExtractedKind(p[1]) = ek
        /\ ExtractedKind(p[2]) = ak
        /\ ~HasOverflow(Checked(p[1], p[2]))}
Alternatives(i) == types_result.rules[Extracted(i)].d.idx
Unaccepted(e, a) ==
    SelectSeq(Alternatives(a),
              LAMBDA x : \A j \in 1..Len(Alternatives(e)) : ~Accepts(Alternatives(e)[j], x))

\* C15: the check of an actual union against an expected union returns one
\* TypeMismatch for every alternative of the actual union that no
\* alternative of the expected union accepts, pinned to that alternative and
\* in the order of the alternatives, and nothing else; so it returns no
\* error iff every actual alternative is accepted by some expected one.
C15_UnionAgainstUnion ==
    phase = "done" =>
        \A p \in PairsOf("Union", "Union") :
            Checked(p[1], p[2]) =
                {[j \in 1..Len(Unaccepted(p[1], p[2])) |->
                    Error("TypeMismatch",
                          types_result.rules[Unaccepted(p[1], p[2])[j]].info)]}

C15_Witness ==
    /\ phase = "done"
    /\ \E i \in 1..Len(types_result.assertions) :
          LET e == types_result.assertions[i][1]
              a == types_result.assertions[i][2]
          IN /\ <<e, a>> \in PairsOf("Union", "Union")
             /\ Len(Alternatives(e)) >= 2
             /\ Len(Unaccepted(e, a)) \in 1..(Len(Alternatives(a)) - 1)
             /\ \E j \in 1..Len(types_result.errors) :
                   types_result.errors[j] =
                       Error("TypeMismatch",
                             types_result.rules[Unaccepted(e, a)[1]].info)

FieldsOf(i) == types_result.rules[Extracted(i)].d.map
Count(v, err) == Cardinality({j \in 1..Len(v) : v[j] = err})
Occurs(sub, v) ==
    \E k \in 0..(Len(v) - Len(sub)) : SubSeq(v, k + 1, k + Len(sub)) = sub
InBoth(e, a, n) == FieldsOf(e)[n].idx # 0 /\ FieldsOf(a)[n].idx # 0
IsMissing(e, a, n) ==
    FieldsOf(e)[n].idx # 0 /\ FieldsOf(a)[n].idx = 0 /\ ~FieldsOf(e)[n].has_default
IsUnexpected(e, a, n) == FieldsOf(e)[n].idx = 0 /\ FieldsOf(a)[n].idx # 0
\* the number of errors the check of the field n contributes
FieldErrors(e, a, n) ==
    CASE InBoth(e, a, n) ->
            Len(CHOOSE sub \in Checked(FieldsOf(e)[n].idx, FieldsOf(a)[n].idx) : TRUE)
      [] IsMissing(e, a, n) \/ IsUnexpected(e, a, n) -> 1
      [] OTHER -> 0

\* C16: every error vector the check of an actual struct against an expected
\* struct can return holds, for each key of both structs, the errors of the
\* check of the two fields; MissingField(key) at the actual rule exactly for
\* the keys of the expected struct that the actual struct lacks and that
\* have no default value; UnexpectedField(key) at the key exactly for the
\* keys of the actual struct that the expected struct lacks; nothing else.
C16_StructAgainstStruct ==
    phase = "done" =>
        \A p \in PairsOf("Struct", "Struct") : \A v \in Checked(p[1], p[2]) :
            /\ \A n \in FieldNames :
                  /\ Count(v, NamedError("MissingField", n,
                                         types_result.rules[p[2]].info))
                        = IF IsMissing(p[1], p[2], n) THEN 1 ELSE 0
                  /\ Count(v, NamedError("UnexpecedField", n, FieldsOf(p[2])[n].info))
                        = IF IsUnexpected(p[1], p[2], n) THEN 1 ELSE 0
                  /\ InBoth(p[1], p[2], n) =>
                        \E sub \in Checked(FieldsOf(p[1])[n].idx, FieldsOf(p[2])[n].idx) :
                            Occurs(sub, v)
            /\ Len(v) = FieldErrors(p[1], p[2], "f") + FieldErrors(p[1], p[2], "g")

C16_Witness ==
    /\ phase = "done"
    /\ \E i \in 1..Len(types_result.assertions) :
          LET e == types_result.assertions[i][1]
              a == types_result.assertions[i][2]
          IN /\ <<e, a>> \in PairsOf("Struct", "Struct")
             /\ \E n \in FieldNames : InBoth(e, a, n)
             /\ \E n \in FieldNames :
                   /\ FieldsOf(e)[n].idx # 0
                   /\ FieldsOf(a)[n].idx = 0
                   /\ FieldsOf(e)[n].has_default
             /\ types_result.errors = <<>>

BinderGlobals ==
    {gi \in 1..Len(globals) : globals[gi].g \in {"def", "let"} /\ globals[gi].name # ""}
\* the type or the value of the binder is exactly a name whose head is the
\* binder's own name
IsSelfReference(gi) ==
    \E e \in {globals[gi].type, globals[gi].expr} :
        e.k = "named" /\ NamedHead(e.name) = globals[gi].name
TypeErrorsIn(gi) ==
    SelectSeq(types_result.errors, LAMBDA err : err.range.g = gi)
\* the rules built for the global gi and the assertions on them
TypeRulesIn(gi) == {i \in TypeRuleIndices : types_result.rules[i].info.g = gi}
AssertionsIn(gi) ==
    {i \in 1..Len(types_result.assertions) :
        types_result.assertions[i][1] \in TypeRulesIn(gi)
        \/ types_result.assertions[i][2] \in TypeRulesIn(gi)}

AllApplied ==
    UNION {{[g |-> gi, name |-> x.name, info |-> x.info] :
              x \in Range(get_applied(globals[gi].type, Info(gi, <<1>>)))
                     \cup Range(get_applied(globals[gi].expr,
                                           IF globals[gi].g = "init" THEN Info(gi, <<>>)
                                           ELSE Info(gi, <<2>>)))} :
             gi \in 1..Len(globals)}
LetBound(name) == BindingKind(namespace_result.bindings, name) = "Let"
Reported(x) ==
    Count(immutable_lets, NamedError("ImmutableLet", NamedHead(x.name), x.info))

LexicalErrors == UNION {token_errors(tokens[i]) : i \in 1..Len(tokens)}

\* C19: every error of the front end has a valid range: a lexical error has
\* 0 <= start <= end <= |source| in bytes of the UTF-8 source, a parser error
\* lies at error_pos..error_pos with 0 <= error_pos <= token_count, and the
\* range start..end of every syntax-tree node, which is what a semantic
\* error carries, has 0 <= start <= end <= token_count.
C19_ErrorRangesValid ==
    /\ \A e \in LexicalErrors :
          0 <= e.start /\ e.start <= e.end /\ e.end <= ByteLen(src)
    /\ \A j \in 1..Len(perrs) :
          0 <= perrs[j].range /\ perrs[j].range <= Len(ptoks)
    /\ \A span \in InfoSpans(ptoks) :
          0 <= span[1] /\ span[1] <= span[2] /\ span[2] <= Len(ptoks)

\* a source with a two-byte character whose tokens carry a lexical error
\* that ends at the end of the source, and whose parse reports an error
C19_Witness ==
    /\ lphase = "done" /\ pphase = "done"
    /\ ByteLen(src) > Len(src)
    /\ \E e \in LexicalErrors : e.start < e.end /\ e.end = ByteLen(src)
    /\ perrs # <<>>
    /\ \E span \in InfoSpans(ptoks) : span[1] < span[2]

RefRules == {i \in RuleIndices : rules[i].d.k = "Ref"}
BoundTo(i) == TableGet(rule_table, rules[i].d.name)

\* C20 as stated: after evaluation a Ref rule whose name is bound in the
\* rule table has the value of the rule it is bound to, whether the binding
\* comes before or after the reference, and a Ref whose name is not bound
\* has the value Unknown.
C20_RefHasBoundValue ==
    phase = "done" =>
        \A i \in RefRules :
            evaluated[i] = IF BoundTo(i) = 0 THEN Unknown ELSE evaluated[BoundTo(i)]

\* C20 amended: after evaluation a Ref rule whose name is bound in the rule
\* table has the value of the rule it is bound to, whether the binding comes
\* before or after the reference, unless the Ref lies on a cycle of the rule
\* graph, where it has either that value or Unknown; a Ref that lies on no
\* cycle always has the value of its rule, and a Ref whose name is not bound
\* has the value Unknown.
C20_RefHasBoundValueOffCycles ==
    phase = "done" =>
        \A i \in RefRules :
            \/ evaluated[i] = IF BoundTo(i) = 0 THEN Unknown ELSE evaluated[BoundTo(i)]
            \/ OnCycle(i) /\ evaluated[i] = Unknown

\* a reference that comes before its binding and has the binding's value,
\* which is not Unknown
C20_Witness ==
    /\ phase = "done"
    /\ \E i \in RefRules :
          /\ BoundTo(i) > i /\ ~OnCycle(i)
          /\ evaluated[i] = evaluated[BoundTo(i)] /\ evaluated[i] # Unknown

Acyclic == \A i \in RuleIndices : ~OnCycle(i)

\* the direct recursive evaluation of a rule of an acyclic rule graph
RECURSIVE Direct(_)
Direct(i) ==
    LET d == rules[i].d
    IN CASE d.k = "Primitive" -> d.v
         [] d.k = "Struct" ->
              StructV([n \in FieldNames |->
                        IF d.map[n] = 0 THEN Absent ELSE Direct(d.map[n])])
         [] d.k = "List" -> ListV([j \in 1..Len(d.idx) |-> Direct(d.idx[j])])
         [] d.k = "Composed" -> merge_fields(Direct(d.own), Direct(d.super))
         [] d.k = "Ref" ->
              IF TableGet(rule_table, d.name) # 0
              THEN Direct(TableGet(rule_table, d.name)) ELSE Unknown
         [] OTHER -> Unknown

\* the branch of the on-stack cycle check is about to be taken
CycleCheckFires ==
    /\ phase = "eval" /\ stack # <<>>
    /\ ~contains_key(evaluated, stack[Len(stack)])
    /\ stack[Len(stack)] \in Range(SubSeq(stack, 1, Len(stack) - 1))

\* C21: for a program whose value-rule graph is acyclic the on-stack cycle
\* check never fires during evaluate, every value that evaluate binds is the
\* direct recursive evaluation of its rule, and after evaluation every rule
\* is bound to it.
C21_EvaluateIsDirect ==
    (Acyclic /\ phase \in {"eval", "done"}) =>
        /\ ~CycleCheckFires
        /\ \A i \in RuleIndices :
              contains_key(evaluated, i) => evaluated[i] = Direct(i)
        /\ phase = "done" => AllEvaluated

\* an acyclic program with a composition, and a reference whose value is
\* taken from its binding
C21_Witness ==
    /\ phase = "done" /\ Acyclic
    /\ \E i \in RuleIndices : rules[i].d.k = "Composed" /\ evaluated[i].t = "Struct"
    /\ \E i \in RefRules : BoundTo(i) # 0 /\ evaluated[i] # Unknown

\* the syntax-tree node at a position: below a def or let 1 is the type and
\* 2 the value, below a field likewise, below an applied name 1 is the
\* applied struct or list
RECURSIVE Sub(_, _)
Sub(n, p) ==
    IF p = <<>> THEN n
    ELSE IF "k" \notin DOMAIN n
    THEN Sub(IF Head(p) = 1 THEN n.type ELSE n.expr, Tail(p))
    ELSE CASE n.k = "struct" -> Sub(n.fields[Head(p)], Tail(p))
           [] n.k = "list" -> Sub(n.exprs[Head(p)], Tail(p))
           [] n.k = "union" -> Sub(n.alts[Head(p)], Tail(p))
           [] n.k = "named" -> Sub(n.app, Tail(p))
NodeAt(i) ==
    IF globals[i.g].g = "init" THEN Sub(globals[i.g].expr, i.path)
    ELSE Sub(globals[i.g], i.path)

StructRules == {s \in RuleIndices : rules[s].d.k = "Struct"}
\* the fields of the struct of rule s that the field map of the rule keeps
KeptFields(s) ==
    {j \in 1..Len(NodeAt(rules[s].info).fields) :
        \A l \in (j + 1)..Len(NodeAt(rules[s].info).fields) :
            NodeAt(rules[s].info).fields[l].name # NodeAt(rules[s].info).fields[j].name}
FieldAt(s, j) == NodeAt(rules[s].info).fields[j]
FieldRule(s, j) == rules[s].d.map[FieldAt(s, j).name]
RuleAt(i) == CHOOSE r \in RuleIndices : rules[r].info = i
HasType(f) == f.type.k # "none"
HasValue(f) == f.expr.k # "none"

\* C22 as stated: a struct field with only a type annotation is an Empty
\* rule and evaluates to Unknown; a field with only a value, or with a type
\* and a value, is a rule flagged is_default.
C22_TypeOnlyFieldIsEmpty ==
    phase = "done" =>
        \A s \in StructRules : \A j \in KeptFields(s) :
            /\ (HasType(FieldAt(s, j)) /\ ~HasValue(FieldAt(s, j))) =>
                  /\ rules[FieldRule(s, j)].d = DEmpty
                  /\ evaluated[FieldRule(s, j)] = Unknown
            /\ HasValue(FieldAt(s, j)) => rules[FieldRule(s, j)].is_default

\* C22 amended: a struct field with only a type annotation is the rule of
\* its type expression, not flagged is_default, and so evaluates to what the
\* type expression evaluates to; a field with neither a type nor a value is
\* an Empty rule, not flagged, and evaluates to Unknown; a field with only a
\* value is the rule of the value, flagged is_default, and a field with both
\* is a Composed rule of the value and the type, flagged is_default.
C22_TypeOnlyFieldIsItsType ==
    phase = "done" =>
        \A s \in StructRules : \A j \in KeptFields(s) :
            LET f == FieldAt(s, j)
                r == FieldRule(s, j)
                at == Info(rules[s].info.g, rules[s].info.path \o <<j>>)
                type == Info(at.g, at.path \o <<1>>)
                value == Info(at.g, at.path \o <<2>>)
            IN CASE HasType(f) /\ HasValue(f) ->
                      /\ rules[r].d = DComposed(RuleAt(value), RuleAt(type))
                      /\ rules[r].info = at /\ rules[r].is_default
                 [] ~HasType(f) /\ HasValue(f) ->
                      r = RuleAt(value) /\ rules[r].is_default
                 [] HasType(f) /\ ~HasValue(f) ->
                      /\ r = RuleAt(type) /\ ~rules[r].is_default
                      /\ rules[r].d # DEmpty
                 [] OTHER ->
                      /\ rules[r].d = DEmpty /\ rules[r].info = at
                      /\ ~rules[r].is_default /\ evaluated[r] = Unknown

\* a field with only a type whose value is known, next to one whose value
\* is Unknown, and a field with neither
C22_Witness ==
    /\ phase = "done"
    /\ \E s \in StructRules : \E j \in KeptFields(s) :
          /\ HasType(FieldAt(s, j)) /\ ~HasValue(FieldAt(s, j))
          /\ evaluated[FieldRule(s, j)].t = "Struct"
    /\ \E s \in StructRules : \E j \in KeptFields(s) :
          /\ HasType(FieldAt(s, j)) /\ ~HasValue(FieldAt(s, j))
          /\ evaluated[FieldRule(s, j)] = Unknown
    /\ \E s \in StructRules : \E j \in KeptFields(s) :
          ~HasType(FieldAt(s, j)) /\ ~HasValue(FieldAt(s, j))

\* parser.rs:50-62: every production of Global fails at the offset and the
\* recovery of Global succeeds
GlobalRecovers ==
    /\ pphase = "parse"
    /\ ~UseParse(ptoks, Stream(ppos, perrs)).ok
    /\ ~BindingParse("Def", ptoks, Stream(ppos, perrs)).ok
    /\ ~BindingParse("Let", ptoks, Stream(ppos, perrs)).ok
    /\ ~ExprParse(ptoks, Stream(ppos, perrs)).ok
    /\ ignore_until(LookaheadGlobal, ptoks, Stream(ppos, perrs)).ok

\* C23: a recovery of Global skips at least one token, stops at the first
\* token of the look-ahead set of Global, so that the Error node spans
\* exactly the skipped tokens, resumes at the sync token, and reports exactly
\* one UnexpectedTokens error whose range is the range of the Error node.
C23_RecoveryReportsUnexpectedTokens ==
    [][GlobalRecovers =>
         /\ ppos < ppos'
         /\ Kind(ptoks, ppos') \in LookaheadGlobal
         /\ \A k \in ppos..(ppos' - 1) : Kind(ptoks, k) \notin LookaheadGlobal
         /\ perrs' = Append(perrs, Error("UnexpectedTokens", <<ppos, ppos'>>))]_vars

\* the productions that are wrapped in expect, with their diagnostics
\* (parser.rs:64-80, 82-96, 161-205, 236-246, 259-278, 319-335, 358-372, 447-458)
Expected ==
    {<<"Ident", "ExpectedIdent">>, <<"Eq", "ExpectedEQ">>, <<"Expr", "ExpectedExpr">>,
     <<"UseKind", "ExpectedUseKind">>, <<"Single", "ExpectedSingle">>,
     <<"RCurly", "MissingClosingCurly">>, <<"RBracket", "MissingClosingBracket">>}
ExpectedParse(which, toks, st) ==
    CASE which = "Expr" -> ExprParse(toks, st)
      [] which = "UseKind" -> UseKindParse(toks, st)
      [] which = "Single" -> SingleParse(toks, st)
      [] OTHER -> token({which}, toks, st)

\* an Eof token lies at or after the offset: true of every offset that a
\* parse that returns can reach
EofAhead(q) == \E k \in (q + 1)..Len(ptoks) : ptoks[k] = "Eof"

StoredIn(rule) ==
    CASE rule.d.k \in {"Union", "List"} -> Range(rule.d.idx)
      [] rule.d.k = "Struct" -> {rule.d.map[n] : n \in FieldNames} \ {0}
      [] rule.d.k = "Composed" -> {rule.d.own, rule.d.super}
      [] OTHER -> {}

\* the type rules built from the globals consumed so far (types.rs:90-100),
\* and the indices a type rule stores in its description
TypesSoFar(gs) == TypeRules(gs, 1, TypeInfo(<<>>, <<>>, NoTypeIdents))
TypeStoredIn(rule) ==
    CASE rule.d.k \in {"Union", "List"} -> Range(rule.d.idx)
      [] rule.d.k = "Struct" -> {rule.d.map[n].idx : n \in FieldNames} \ {0}
      [] rule.d.k = "Rule" -> {rule.d.idx}
      [] OTHER -> {}

ValueIndicesExist ==
    /\ \A i \in RuleIndices : StoredIn(rules[i]) \subseteq 1..(i - 1)
    /\ \A n \in DOMAIN rule_table : rule_table[n] \in 0..Len(rules)
    /\ \A j \in 1..Len(inits) : inits[j] \in RuleIndices
    /\ \A j \in 1..Len(lets) : lets[j].idx \in RuleIndices
    /\ phase # "build" =>
          /\ Len(evaluated) = Len(rules)
          /\ Range(stack) \subseteq RuleIndices

\* the lookups of evaluate and of the checks after it find a value
LookupsFindValue ==
    /\ (phase = "eval" /\ stack # <<>>) =>
          LET top == stack[Len(stack)]
          IN (/\ ~contains_key(evaluated, top)
              /\ top \notin Range(SubSeq(stack, 1, Len(stack) - 1))
              /\ <<>> \in Dependencies(rules[top], evaluated, rule_table))
             => \A c \in Children(rules[top], rule_table) : contains_key(evaluated, c)
    /\ (phase = "eval" /\ stack = <<>> /\ cursor > Len(rules)) => AllEvaluated

TypeIndicesExist ==
    LET t == TypesSoFar(globals)
        v == ValidatedRules(t)
        n == Len(t.rules)
    IN /\ \A i \in 1..n : TypeStoredIn(t.rules[i]) \subseteq 1..(i - 1)
       /\ \A i \in 1..n : v[i].d.k = "ValidIdent" => v[i].d.idx \in 1..n
       /\ \A j \in 1..Len(t.assertions) :
             t.assertions[j][1] \in 1..n /\ t.assertions[j][2] \in 1..n
       /\ \A k \in DOMAIN t.idents : t.idents[k] \in 0..n

\* both rule vectors only grow at the end
RulesAppended ==
    /\ Len(rules) <= Len(rules')
    /\ SubSeq(rules', 1, Len(rules)) = rules
    /\ globals' # globals =>
          /\ Len(TypesSoFar(globals).rules) <= Len(TypesSoFar(globals').rules)
          /\ SubSeq(TypesSoFar(globals').rules, 1, Len(TypesSoFar(globals).rules))
                = TypesSoFar(globals).rules

\* C25: in the value rules and in the type rules, rules are only appended,
\* and every rule index stored in a description, an assertion pair, the
\* ident map, the rule table, inits or lets names an existing rule at every
\* point (a description only names rules pushed before its own rule); the
\* lookups of evaluated values find a value.
C25_RuleIndicesNeverDangle ==
    /\ [](ValueIndicesExist /\ LookupsFindValue /\ TypeIndicesExist)
    /\ [][RulesAppended]_vars

\* after evaluation of a program with an init, a let, a table entry, an
\* assertion, a type ident and a type rule that names another rule
C25_Witness ==
    /\ phase = "done" /\ inits # <<>> /\ lets # <<>>
    /\ \E n \in DOMAIN rule_table : rule_table[n] # 0
    /\ \E i \in RuleIndices : rules[i].d.k = "Composed"
    /\ types_result.assertions # <<>>
    /\ \E k \in DOMAIN types_result.idents : types_result.idents[k] # 0
    /\ \E i \in 1..Len(types_result.rules) :
          types_result.rules[i].d.k \in {"ValidIdent", "Struct"}

\* the aliased use items of the program: where the alias is, and the kind of
\* the item's body ("none" for a terminal item)
RECURSIVE AliasSites(_, _)
BodySites(body, info) ==
    CASE body.k = "single" -> AliasSites(body.item, Info(info.g, info.path \o <<1>>))
      [] body.k = "multiple" ->
            UNION {AliasSites(body.items[i], Info(info.g, info.path \o <<i>>)) :
                     i \in 1..Len(body.items)}
      [] OTHER -> {}
AliasSites(item, info) ==
    (IF item.alias.k # "none"
     THEN {[at |-> Info(info.g, info.path \o <<0>>), body |-> item.body.k]}
     ELSE {})
    \cup BodySites(item.body, info)
AllAliasSites ==
    UNION {BodySites(globals[g].body, Info(g, <<>>)) :
             g \in {h \in 1..Len(globals) : globals[h].g = "use"}}
AliasingErrorsAt(at) ==
    Cardinality({k \in 1..Len(uses_result.errors) :
                   uses_result.errors[k] = Error("AliasingNonSingle", at)})

AtComment == lphase = "lex" /\ IsPrefixOf(<<"/", "/">>, Remaining)
\* the 1-based positions of the newlines after the boundary
NewlinesAhead == {j \in (lpos + 1)..Len(src) : src[j] = "\n"}

\* C27: wherever `//` begins at a token boundary, the next token is one
\* Comment token that starts there and ends after the next newline (at the
\* end of the source if there is none).
C27_CommentIsOneToken ==
    [][AtComment =>
         /\ Len(tokens') = Len(tokens) + 1
         /\ tokens'[Len(tokens')].type = "Comment"
         /\ tokens'[Len(tokens')].start = Offset(lpos)
         /\ lpos' = IF NewlinesAhead = {} THEN Len(src) ELSE FirstIn(NewlinesAhead)]_vars

\* C28: type assertion checking terminates for every program: the analysis
\* never enters a check whose recursion does not end.
C28_TypeCheckTerminates == phase # "overflow"

\* the binders of the name that have a value, and the rule of the value of a
\* global (values.rs:52-54, 64-65: the last rule pushed for it)
ValueBindersOf(n) == {g \in BindersOf(n) : globals[g].expr.k # "none"}
ValueRuleOf(g) == CHOOSE i \in RuleIndices : rules[i].info = Info(g, <<2>>)

\* C29: a name bound by more than one def or let is mapped by the returned
\* symbol table to the value of its first binding, the binding whose kind
\* the namespace analysis keeps.
C29_SymbolTableKeepsFirstBinding ==
    phase = "done" =>
        \A n \in BinderNames :
            (Cardinality(ValueBindersOf(n)) >= 2 /\ ValueBindersOf(n) = BindersOf(n)) =>
                /\ namespace_result.bindings[n] = BindingOf(Least(BindersOf(n)))
                /\ result.symbol_table[n] = evaluated[ValueRuleOf(Least(BindersOf(n)))]

\* the descriptions check_rules has a branch for (assertions.rs:196-229)
CheckedKinds == {"Union", "Struct", "List", "Primitive", "BuiltIn", "Unknown"}

\* C30: in the rules handed to the assertion check no rule is an Ident or
\* an Import: every Ident has become ValidIdent, BuiltIn or Unknown, every
\* Import has become Unknown and no other rule has changed; and the
\* description extracted from any rule, if the extraction ends, is one that
\* check_rules has a branch for, so neither panic can be reached.  The
\* finished analysis has checked exactly these rules.
C30_NoIdentOrImportIsChecked ==
    LET t == TypesSoFar(globals)
        v == ValidatedRules(t)
    IN /\ \A i \in 1..Len(t.rules) :
             /\ v[i].d.k \notin {"Ident", "Import"}
             /\ t.rules[i].d.k = "Ident" => v[i].d.k \in {"ValidIdent", "BuiltIn", "Unknown"}
             /\ t.rules[i].d.k = "Import" => v[i].d = TUnknown
             /\ t.rules[i].d.k \notin {"Ident", "Import"} => v[i] = t.rules[i]
             /\ extract_type_description(v, i, {}) # 0 =>
                    v[extract_type_description(v, i, {})].d.k \in CheckedKinds
       /\ phase = "done" => types_result.rules = v

\* a finished analysis such as `use m::a` with `def b: a = 1`: the type of b is an
\* Ident that resolves to the Import rule, and the assertion is checked
C30_Witness ==
    /\ phase = "done"
    /\ types_result.assertions # <<>>
    /\ \E i, j \in 1..Len(TypesSoFar(globals).rules) :
          /\ TypesSoFar(globals).rules[i].d.k = "Import"
          /\ TypesSoFar(globals).rules[j].d.k = "Ident"
          /\ types_result.rules[j].d = TValidIdent(i)
          /\ \E k \in 1..Len(types_result.assertions) :
                types_result.assertions[k][1] = j

====
